---- MODULE Spec2Model ----
(***************************************************************************)
(* Selection-and-transform engine of the pixi watchface editor:            *)
(* ElementManager, SelectionManager, TransformController, BaseElement      *)
(* reactive setters and the UndoRedoPlugin history.                        *)
(*                                                                         *)
(* Every method of the source is an operator from a state record to a      *)
(* state record, so that nested calls (a handler calling clearSelection,   *)
(* a setter emitting an event whose listener runs synchronously) compose   *)
(* exactly as in the single-threaded code.  An action of the state machine *)
(* is one top-level call: it starts with an empty event log, applies the   *)
(* operator to the current state and commits the result.                   *)
(*                                                                         *)
(* Numbers: coordinates are exact; a pointer event is only delivered when  *)
(* every division the handler performs is exact on it and every atan2 it   *)
(* takes falls on a multiple of 45 degrees (rotation is counted in units   *)
(* of 45 degrees).                                                         *)
(***************************************************************************)
EXTENDS Integers, Sequences, FiniteSets, TLC

(* ---------------------------- bounds ----------------------------------- *)

\* number of element objects the application has created
MaxElems == 2
\* gestures started (pointer-down on an element or on a handle) per run
MaxGestures == 1
\* direct property assignments / nudges made through the public API per run
MaxEdits == 2
\* UndoRedoPlugin option maxHistory (default 100) as configured in the model
MaxHistory == 2

Ids == 1..MaxElems

(* ---------------------------- elements --------------------------------- *)

\* ShapeElement.rectangle(10, 10, 100, 50)
RectProto ==
  [kind |-> "rectangle", x |-> 10, y |-> 10, sp |-> [w |-> 100, h |-> 50],
   rotation |-> 0, zIndex |-> 0, interactable |-> TRUE, attached |-> FALSE]

\* ShapeElement.circle(40, 40, 20);  sp.diam is 2 * _shapeParams.radius
CircleProto ==
  [kind |-> "circle", x |-> 40, y |-> 40, sp |-> [diam |-> 40],
   rotation |-> 0, zIndex |-> 0, interactable |-> TRUE, attached |-> FALSE]

\* the object the application creates for slot i (odd: rectangle, even: circle)
Proto(i) == IF i % 2 = 1 THEN RectProto ELSE CircleProto

\* ShapeElement.arc(40, 40, 20, startAngle, endAngle); the angles do not
\* enter the bounds
ArcProto ==
  [kind |-> "arc", x |-> 40, y |-> 40, sp |-> [diam |-> 40],
   rotation |-> 0, zIndex |-> 0, interactable |-> TRUE, attached |-> FALSE]

\* Math.min / Math.max
Min2(a, b) == IF a < b THEN a ELSE b
Max2(a, b) == IF a > b THEN a ELSE b

\* ShapeElement.line(x1, y1, x2, y2): endpoints relative to the top-left
\* corner of their bounding box, which becomes the position
LineProto(x1, y1, x2, y2) ==
  [kind |-> "line", x |-> Min2(x1, x2), y |-> Min2(y1, y2),
   sp |-> [lx1 |-> x1 - Min2(x1, x2), ly1 |-> y1 - Min2(y1, y2),
           lx2 |-> x2 - Min2(x1, x2), ly2 |-> y2 - Min2(y1, y2)],
   rotation |-> 0, zIndex |-> 0, interactable |-> TRUE, attached |-> FALSE]

\* new ImageElement(src, 40, 40) before its image has loaded: the sprite
\* shows Texture.EMPTY, one pixel wide and high
ImageProto ==
  [kind |-> "image", x |-> 40, y |-> 40, sp |-> [w |-> 1, h |-> 1, loaded |-> FALSE],
   rotation |-> 0, zIndex |-> 0, interactable |-> TRUE, attached |-> FALSE]

\* Math.abs
Abs(n) == IF n < 0 THEN 0 - n ELSE n

\* ShapeElement.getLocalBounds().width; ImageElement: sprite.width
Width(e) ==
  CASE e.kind \in {"rectangle", "image"} -> e.sp.w
    [] e.kind = "line" -> IF e.sp.lx2 = e.sp.lx1 THEN 1 ELSE Abs(e.sp.lx2 - e.sp.lx1)
    [] OTHER -> e.sp.diam

\* ShapeElement.getLocalBounds().height; ImageElement: sprite.height
Height(e) ==
  CASE e.kind \in {"rectangle", "image"} -> e.sp.h
    [] e.kind = "line" -> IF e.sp.ly2 = e.sp.ly1 THEN 1 ELSE Abs(e.sp.ly2 - e.sp.ly1)
    [] OTHER -> e.sp.diam

(* ---------------------------- state ------------------------------------ *)

VARIABLES
  elems,             \* the element objects: id -> fields of BaseElement/ShapeElement
  scene,             \* ElementManager.elements (insertion order of the Map)
  selected,          \* SelectionManager.selected (insertion order of the Set)
  clipboard,         \* SelectionManager.clipboard (one serialized element per entry)
  view,              \* transform of the content root: global = pan + zoom * (origin + world)
  boxVisible,        \* SelectionBox.container.visible
  rotateShown,       \* SelectionBox.rotateHandle.graphics.visible
  isMarqueeActive,   \* SelectionManager.isMarqueeActive
  marqueeStart,      \* SelectionManager.marqueeStart
  isDraggingElement, \* SelectionManager.isDraggingElement
  dragState,         \* TransformController.dragState (NoDrag for null)
  activeElements,    \* TransformController.activeElements
  suppress,          \* engine._suppressActions
  plugin,            \* an UndoRedoPlugin is registered and initialised
  undoStack,         \* UndoRedoPlugin.undoStack
  redoStack,         \* UndoRedoPlugin.redoStack
  events,            \* events emitted on the EventBus by the last top-level call
  lastOp,            \* the last top-level call and its arguments
  gestures,          \* number of gestures started so far
  edits,             \* number of direct API edits made so far
  probe              \* arguments and result of the last direct call of a pure helper

vars == <<elems, scene, selected, clipboard, view, boxVisible, rotateShown, isMarqueeActive,
          marqueeStart, isDraggingElement, dragState, activeElements, suppress,
          plugin, undoStack, redoStack, events, lastOp, gestures, edits, probe>>

\* the content root at the stage origin, unscaled: coordinateOrigin
\* 'top-left' and no viewport
IdentityView ==
  [panX |-> 0, panY |-> 0, num |-> 1, den |-> 1, originX |-> 0, originY |-> 0]

\* TransformController.dragState === null
NoDrag == [mode |-> "none"]

\* the program state as one record (lastOp, gestures, edits and probe are not
\* part of it)
St ==
  [elems |-> elems, scene |-> scene, selected |-> selected, clipboard |-> clipboard,
   view |-> view,
   boxVisible |-> boxVisible, rotateShown |-> rotateShown,
   isMarqueeActive |-> isMarqueeActive, marqueeStart |-> marqueeStart,
   isDraggingElement |-> isDraggingElement, dragState |-> dragState,
   activeElements |-> activeElements, suppress |-> suppress, plugin |-> plugin,
   undoStack |-> undoStack, redoStack |-> redoStack, events |-> <<>>]

Commit(s) ==
  /\ elems' = s.elems
  /\ scene' = s.scene
  /\ selected' = s.selected
  /\ clipboard' = s.clipboard
  /\ view' = s.view
  /\ boxVisible' = s.boxVisible
  /\ rotateShown' = s.rotateShown
  /\ isMarqueeActive' = s.isMarqueeActive
  /\ marqueeStart' = s.marqueeStart
  /\ isDraggingElement' = s.isDraggingElement
  /\ dragState' = s.dragState
  /\ activeElements' = s.activeElements
  /\ suppress' = s.suppress
  /\ plugin' = s.plugin
  /\ undoStack' = s.undoStack
  /\ redoStack' = s.redoStack
  /\ events' = s.events

(* ---------------------------- sequences -------------------------------- *)

Range(q) == {q[i] : i \in 1..Len(q)}

\* Set.delete / Map.delete on an insertion-ordered collection
SeqDelete(q, v) == SelectSeq(q, LAMBDA u : u # v)

\* Set.add on an insertion-ordered collection
SeqAdd(q, v) == IF v \in Range(q) THEN q ELSE Append(q, v)

\* left fold of a state transformer over a sequence: for (const v of q) s = F(s, v)
RECURSIVE ForEach(_, _, _)
ForEach(F(_, _), q, s) ==
  IF q = <<>> THEN s ELSE ForEach(F, Tail(q), F(s, Head(q)))

(* ---------------------------- EventBus --------------------------------- *)

\* selection visuals that keep the rotate handle for any selection
updateSelectionVisuals_AlwaysRotate(s) ==
  IF Len(s.selected) = 0
  THEN [s EXCEPT !.boxVisible = FALSE]
  ELSE [s EXCEPT !.boxVisible = TRUE, !.rotateShown = TRUE]

\* SelectionManager.updateSelectionVisuals: hide the box on an empty
\* selection, otherwise show it, with the rotate handle for exactly one object
updateSelectionVisuals(s) ==
  IF Len(s.selected) = 0
  THEN [s EXCEPT !.boxVisible = FALSE]
  ELSE [s EXCEPT !.boxVisible = TRUE, !.rotateShown = (Len(s.selected) = 1)]

\* SelectionManager.init, listener of element:removed
onElementRemoved(s, id) ==
  updateSelectionVisuals([s EXCEPT !.selected = SeqDelete(s.selected, id)])

\* SelectionManager.init, listener of element:changed
onElementChanged(s, id) ==
  IF id \in Range(s.selected) THEN updateSelectionVisuals(s) ELSE s

\* a listener of action:performed that never drops the oldest action
onActionPerformed_KeepsAll(s, action) ==
  IF ~s.plugin THEN s
  ELSE [s EXCEPT !.undoStack = Append(s.undoStack, action), !.redoStack = <<>>]

\* UndoRedoPlugin.init, listener of action:performed
onActionPerformed(s, action) ==
  IF ~s.plugin THEN s
  ELSE LET pushed == Append(s.undoStack, action)
           kept == IF Len(pushed) > MaxHistory THEN Tail(pushed) ELSE pushed
       IN [s EXCEPT !.undoStack = kept, !.redoStack = <<>>]

\* EventBus.emit: record the event, then run its listeners synchronously
Emit(s, ev) ==
  LET logged == [s EXCEPT !.events = Append(s.events, ev)]
  IN CASE ev.type = "element:removed" -> onElementRemoved(logged, ev.element)
       [] ev.type = "element:changed" -> onElementChanged(logged, ev.element)
       [] ev.type = "action:performed" -> onActionPerformed(logged, ev.action)
       [] OTHER -> logged

(* ---------------------------- BaseElement ------------------------------ *)

\* emitChange that does not consult the suppression flag
emitChange_Unsuppressed(s, id, property, oldValue, newValue) ==
  IF ~s.elems[id].attached THEN s
  ELSE Emit(Emit(s, [type |-> "element:changed", element |-> id, property |-> property]),
            [type |-> "action:performed",
             action |-> [element |-> id, property |-> property,
                         oldValue |-> oldValue, newValue |-> newValue]])

\* emitChange of an element that keeps its engine reference after removal
emitChange_KeepsEngine(s, id, property, oldValue, newValue) ==
  LET changed == Emit(s, [type |-> "element:changed", element |-> id,
                          property |-> property])
  IN IF changed.suppress THEN changed
     ELSE Emit(changed,
               [type |-> "action:performed",
                action |-> [element |-> id, property |-> property,
                            oldValue |-> oldValue, newValue |-> newValue]])

\* BaseElement.emitChange: nothing when detached; element:changed always;
\* action:performed unless engine._suppressActions.  The action is the pair of
\* closures over (element, property, oldValue, newValue).
emitChange(s, id, property, oldValue, newValue) ==
  IF ~s.elems[id].attached THEN s
  ELSE LET changed == Emit(s, [type |-> "element:changed", element |-> id,
                               property |-> property])
       IN IF changed.suppress THEN changed
          ELSE Emit(changed,
                    [type |-> "action:performed",
                     action |-> [element |-> id, property |-> property,
                                 oldValue |-> oldValue, newValue |-> newValue]])

\* the x setter without the equality guard
SetX_NoGuard(s, id, value) ==
  LET old == s.elems[id].x
  IN emitChange([s EXCEPT !.elems[id].x = value], id, "x", old, value)

\* BaseElement: set x
SetX(s, id, value) ==
  LET old == s.elems[id].x
  IN IF old = value THEN s
     ELSE emitChange([s EXCEPT !.elems[id].x = value], id, "x", old, value)

\* BaseElement: set y
SetY(s, id, value) ==
  LET old == s.elems[id].y
  IN IF old = value THEN s
     ELSE emitChange([s EXCEPT !.elems[id].y = value], id, "y", old, value)

\* BaseElement: set rotation
SetRotation(s, id, value) ==
  LET old == s.elems[id].rotation
  IN IF old = value THEN s
     ELSE emitChange([s EXCEPT !.elems[id].rotation = value], id, "rotation", old, value)

\* BaseElement: set zIndex (element:zChanged follows when attached)
SetZIndex(s, id, value) ==
  LET old == s.elems[id].zIndex
  IN IF old = value THEN s
     ELSE LET changed == emitChange([s EXCEPT !.elems[id].zIndex = value],
                                    id, "zIndex", old, value)
          IN IF changed.elems[id].attached
             THEN Emit(changed, [type |-> "element:zChanged", element |-> id])
             ELSE changed

\* BaseElement: set interactable
SetInteractable(s, id, value) ==
  LET old == s.elems[id].interactable
  IN IF old = value THEN s
     ELSE emitChange([s EXCEPT !.elems[id].interactable = value], id,
                     "interactable", old, value)

\* ShapeElement: set width (rectangle: w; circle, arc: radius = value / 2;
\* line: lx2); ImageElement: set sprite.width, without the old = 0 guard
SetWidth(s, id, value) ==
  LET old == Width(s.elems[id])
      e == s.elems[id]
  IN IF old = value \/ (e.kind # "image" /\ old = 0) THEN s
     ELSE LET drawn ==
                CASE e.kind \in {"rectangle", "image"} -> [s EXCEPT !.elems[id].sp.w = value]
                  [] e.kind = "line" -> [s EXCEPT !.elems[id].sp.lx2 = value]
                  [] OTHER -> [s EXCEPT !.elems[id].sp.diam = value]
          IN emitChange(drawn, id, "width", old, value)

\* ShapeElement: set height (rectangle: h; circle, arc: radius = value / 2;
\* line: ly2); ImageElement: set sprite.height, without the old = 0 guard
SetHeight(s, id, value) ==
  LET old == Height(s.elems[id])
      e == s.elems[id]
  IN IF old = value \/ (e.kind # "image" /\ old = 0) THEN s
     ELSE LET drawn ==
                CASE e.kind \in {"rectangle", "image"} -> [s EXCEPT !.elems[id].sp.h = value]
                  [] e.kind = "line" -> [s EXCEPT !.elems[id].sp.ly2 = value]
                  [] OTHER -> [s EXCEPT !.elems[id].sp.diam = value]
          IN emitChange(drawn, id, "height", old, value)

\* (element as any)[property] = value
SetProperty(s, id, property, value) ==
  CASE property = "x" -> SetX(s, id, value)
    [] property = "y" -> SetY(s, id, value)
    [] property = "rotation" -> SetRotation(s, id, value)
    [] property = "zIndex" -> SetZIndex(s, id, value)
    [] property = "interactable" -> SetInteractable(s, id, value)
    [] property = "width" -> SetWidth(s, id, value)
    [] property = "height" -> SetHeight(s, id, value)

\* element[property]
GetProperty(e, property) ==
  CASE property = "x" -> e.x
    [] property = "y" -> e.y
    [] property = "rotation" -> e.rotation
    [] property = "zIndex" -> e.zIndex
    [] property = "interactable" -> e.interactable
    [] property = "width" -> Width(e)
    [] property = "height" -> Height(e)

\* ImageElement.loadTexture, img.onload: the sprite takes the size of the
\* image (64 x 64 in the model) and the element reports 'loaded'
onload(s, id) ==
  emitChange([s EXCEPT !.elems[id].sp = [w |-> 64, h |-> 64, loaded |-> TRUE]],
             id, "loaded", FALSE, TRUE)

\* (element as any)[property] = value throws a TypeError: the property is
\* an accessor without a setter (ImageElement.loaded) and the closures are
\* strict-mode code
Throws(a) == a.property = "loaded"

\* UndoableAction.undo of a property-change action; when the assignment
\* throws, the statement after it is not reached
ActionUndo(s, a) ==
  LET on == IF s.elems[a.element].attached THEN [s EXCEPT !.suppress = TRUE] ELSE s
  IN IF Throws(a) THEN on
     ELSE LET set == SetProperty(on, a.element, a.property, a.oldValue)
          IN IF set.elems[a.element].attached THEN [set EXCEPT !.suppress = FALSE] ELSE set

\* a redo closure that captured the old value instead of the new one
ActionRedo_WritesOld(s, a) ==
  LET on == IF s.elems[a.element].attached THEN [s EXCEPT !.suppress = TRUE] ELSE s
      set == SetProperty(on, a.element, a.property, a.oldValue)
  IN IF set.elems[a.element].attached THEN [set EXCEPT !.suppress = FALSE] ELSE set

\* UndoableAction.redo of a property-change action
ActionRedo(s, a) ==
  LET on == IF s.elems[a.element].attached THEN [s EXCEPT !.suppress = TRUE] ELSE s
  IN IF Throws(a) THEN on
     ELSE LET set == SetProperty(on, a.element, a.property, a.newValue)
          IN IF set.elems[a.element].attached THEN [set EXCEPT !.suppress = FALSE] ELSE set

(* ---------------------------- UndoRedoPlugin --------------------------- *)

\* UndoRedoPlugin.canUndo
canUndo(s) == Len(s.undoStack) > 0

\* UndoRedoPlugin.canRedo
canRedo(s) == Len(s.redoStack) > 0

\* UndoRedoPlugin.undo; when action.undo() throws, the two statements after
\* it are not reached
PluginUndo(s) ==
  IF Len(s.undoStack) = 0 THEN s
  ELSE LET action == s.undoStack[Len(s.undoStack)]
           popped == [s EXCEPT !.undoStack = SubSeq(s.undoStack, 1, Len(s.undoStack) - 1),
                               !.suppress = TRUE]
           undone == ActionUndo(popped, action)
       IN IF Throws(action) THEN undone
          ELSE [undone EXCEPT !.suppress = FALSE,
                              !.redoStack = Append(undone.redoStack, action)]

\* UndoRedoPlugin.redo; when action.redo() throws, the two statements after
\* it are not reached
PluginRedo(s) ==
  IF Len(s.redoStack) = 0 THEN s
  ELSE LET action == s.redoStack[Len(s.redoStack)]
           popped == [s EXCEPT !.redoStack = SubSeq(s.redoStack, 1, Len(s.redoStack) - 1),
                               !.suppress = TRUE]
           redone == ActionRedo(popped, action)
       IN IF Throws(action) THEN redone
          ELSE [redone EXCEPT !.suppress = FALSE,
                              !.undoStack = Append(redone.undoStack, action)]

(* ---------------------------- ElementManager --------------------------- *)

\* ElementManager.add
ElementManagerAdd(s, id) ==
  IF id \in Range(s.scene) THEN s
  ELSE Emit([s EXCEPT !.scene = Append(s.scene, id), !.elems[id].attached = TRUE],
            [type |-> "element:added", element |-> id])

\* ElementManager.remove
ElementManagerRemove(s, id) ==
  IF id \notin Range(s.scene) THEN s
  ELSE Emit([s EXCEPT !.scene = SeqDelete(s.scene, id), !.elems[id].attached = FALSE],
            [type |-> "element:removed", element |-> id])

\* ElementManager.clear: detaches every element, notifies nobody
ElementManagerClear(s) ==
  [s EXCEPT !.scene = <<>>,
            !.elems = [i \in Ids |->
                         IF i \in Range(s.scene)
                         THEN [s.elems[i] EXCEPT !.attached = FALSE]
                         ELSE s.elems[i]]]

\* ShapeElement.fromJSON: a new, detached object carrying the serialized fields
fromJSON(s, id) == [s EXCEPT !.elems[id] = Proto(id)]

\* SerializationManager.deserialize: clear, then add one new object per entry
deserialize(s, ids) ==
  LET cleared == ElementManagerClear(s)
      loaded == ForEach(LAMBDA u, id : ElementManagerAdd(fromJSON(u, id), id), ids, cleared)
  IN Emit(loaded, [type |-> "state:loaded"])

(* ---------------------------- SelectionManager API --------------------- *)

\* SelectionManager.getSelected
getSelected(s) == s.selected

\* SelectionManager.addToSelection
addToSelection(s, id) ==
  LET added == updateSelectionVisuals([s EXCEPT !.selected = SeqAdd(s.selected, id)])
  IN Emit(added, [type |-> "selection:changed", selected |-> getSelected(added)])

\* SelectionManager.deselect
deselect(s, id) ==
  LET removed == updateSelectionVisuals([s EXCEPT !.selected = SeqDelete(s.selected, id)])
  IN Emit(removed, [type |-> "selection:changed", selected |-> getSelected(removed)])

\* clearSelection without the early return on an empty selection
clearSelection_NoGuard(s) ==
  Emit([s EXCEPT !.selected = <<>>, !.boxVisible = FALSE],
       [type |-> "selection:cleared"])

\* SelectionManager.clearSelection
clearSelection(s) ==
  IF Len(s.selected) = 0 THEN s
  ELSE Emit([s EXCEPT !.selected = <<>>, !.boxVisible = FALSE],
            [type |-> "selection:cleared"])

\* SelectionManager.select / selectOnly
select(s, id) == addToSelection(clearSelection(s), id)

\* selectAll that adds every scene element
selectAll_Everything(s) ==
  LET all == ForEach(LAMBDA u, id : [u EXCEPT !.selected = SeqAdd(u.selected, id)],
                     s.scene, s)
      shown == updateSelectionVisuals(all)
  IN Emit(shown, [type |-> "selection:changed", selected |-> getSelected(shown)])

\* SelectionManager.selectAll
selectAll(s) ==
  LET all == ForEach(LAMBDA u, id : IF u.elems[id].interactable
                                    THEN [u EXCEPT !.selected = SeqAdd(u.selected, id)]
                                    ELSE u,
                     s.scene, s)
      shown == updateSelectionVisuals(all)
  IN Emit(shown, [type |-> "selection:changed", selected |-> getSelected(shown)])

(* ---------------------------- clipboard -------------------------------- *)

\* a BaseElement subclass of the application with a type tag of its own and
\* square local bounds
CustomProto ==
  [kind |-> "custom", x |-> 70, y |-> 30, sp |-> [diam |-> 30],
   rotation |-> 0, zIndex |-> 0, interactable |-> TRUE, attached |-> FALSE]

\* the types the SerializationManager constructor registers
RegisteredTypes == {"text", "image", "shape"}

\* BaseElement.type
TypeOf(e) == IF e.kind \in {"rectangle", "circle", "arc", "line"} THEN "shape" ELSE e.kind

\* JSON.parse(JSON.stringify(el.toJSON())): the serialized fields, by value
toJSON(s, id) ==
  LET e == s.elems[id]
  IN [type |-> TypeOf(e), id |-> id, x |-> e.x, y |-> e.y, rotation |-> e.rotation,
      zIndex |-> e.zIndex, interactable |-> e.interactable,
      shapeType |-> e.kind, shapeParams |-> e.sp]

\* ShapeElement.fromJSON: a new detached object built from the shape type and
\* parameters, then assigned x, y, rotation, zIndex and interactable
ShapeFromJSON(data) ==
  [kind |-> data.shapeType, x |-> data.x, y |-> data.y, sp |-> data.shapeParams,
   rotation |-> data.rotation, zIndex |-> data.zIndex,
   interactable |-> data.interactable, attached |-> FALSE]

\* objects that nothing refers to: neither a collection, nor a recorded
\* action, nor the id of a clipboard entry
Unused(s) ==
  {i \in DOMAIN s.elems :
     /\ i \notin Range(s.scene) \cup Range(s.selected) \cup Range(s.activeElements)
     /\ \A k \in 1..Len(s.undoStack) : s.undoStack[k].element # i
     /\ \A k \in 1..Len(s.redoStack) : s.redoStack[k].element # i
     /\ \A k \in 1..Len(s.clipboard) : s.clipboard[k].id # i}

\* the object a constructor returns, with the id generateUid() gives it
NewObject(s) == CHOOSE i \in Unused(s) : \A j \in Unused(s) : i <= j

\* SerializationManager.deserializeElement finds a class for the entry
Deserializes(json) == json.type \in RegisteredTypes

\* SelectionManager.copySelected
copySelected(s) ==
  [s EXCEPT !.clipboard = [k \in 1..Len(s.selected) |-> toJSON(s, s.selected[k])]]

\* a paste that keeps the copied position
pasteClipboard_NoOffset(s) ==
  IF Len(s.clipboard) = 0 THEN s
  ELSE ForEach(LAMBDA u, json :
                 IF ~Deserializes(json) THEN u
                 ELSE LET id == NewObject(u)
                          made == [u EXCEPT !.elems[id] = ShapeFromJSON(json)]
                      IN addToSelection(ElementManagerAdd(made, id), id),
               s.clipboard, clearSelection(s))

\* a paste that gives up at the first entry that does not deserialize
pasteClipboard_StopsAtFailure(s) ==
  IF Len(s.clipboard) = 0 THEN s
  ELSE LET bad == {k \in 1..Len(s.clipboard) : ~Deserializes(s.clipboard[k])}
           upTo == IF bad = {} THEN Len(s.clipboard)
                   ELSE (CHOOSE k \in bad : \A j \in bad : k <= j) - 1
       IN ForEach(LAMBDA u, json :
                    LET data == [json EXCEPT !.x = @ + 20, !.y = @ + 20]
                        id == NewObject(u)
                        made == [u EXCEPT !.elems[id] = ShapeFromJSON(data)]
                    IN addToSelection(ElementManagerAdd(made, id), id),
                  SubSeq(s.clipboard, 1, upTo), clearSelection(s))

\* SelectionManager.pasteClipboard (the SerializationManager is set by the
\* engine constructor); the id written into the data is not read by fromJSON,
\* the new object carries the id its constructor generated
pasteClipboard(s) ==
  IF Len(s.clipboard) = 0 THEN s
  ELSE ForEach(LAMBDA u, json :
                 LET data == [json EXCEPT !.x = @ + 20, !.y = @ + 20]
                 IN IF ~Deserializes(data) THEN u
                    ELSE LET id == NewObject(u)
                             made == [u EXCEPT !.elems[id] = ShapeFromJSON(data)]
                         IN addToSelection(ElementManagerAdd(made, id), id),
               s.clipboard, clearSelection(s))

\* deleteSelected that empties the selection and leaves the scene alone
deleteSelected_KeepsScene(s) == clearSelection(s)

\* SelectionManager.deleteSelected
deleteSelected(s) ==
  clearSelection(ForEach(LAMBDA u, id : ElementManagerRemove(u, id), getSelected(s), s))

\* SelectionManager.nudgeSelected
nudgeSelected(s, dx, dy) ==
  updateSelectionVisuals(
    ForEach(LAMBDA u, id : SetY(SetX(u, id, u.elems[id].x + dx), id, u.elems[id].y + dy),
            getSelected(s), s))

(* ---------------------------- TransformController ---------------------- *)

\* HANDLE_POSITIONS of SelectionBox: the eight resize handles
HandlePositions ==
  {"top-left", "top-center", "top-right", "middle-right",
   "bottom-right", "bottom-center", "bottom-left", "middle-left"}

\* handle.includes('left') and its three siblings, on the eight handle tags
\* and on the other tags of the model ("left", "center")
IncludesLeft(handle) == handle \in {"top-left", "middle-left", "bottom-left", "left"}
IncludesRight(handle) == handle \in {"top-right", "middle-right", "bottom-right"}
IncludesTop(handle) == handle \in {"top-left", "top-center", "top-right"}
IncludesBottom(handle) == handle \in {"bottom-left", "bottom-center", "bottom-right"}

\* minimum extent of handleResize: if (newW < 5) newW = 5
MinSize == 5

\* toWorld that takes the global pointer position for the world position
toWorld_IgnoresView(s, ev) == [x |-> ev.globalX, y |-> ev.globalY]

\* TransformController.toWorld / SelectionManager.toWorld: contentRoot.toLocal
\* of the global pointer position, the inverse of the content root's world
\* transform (zoom is the fraction num/den)
toWorld(s, ev) ==
  [x |-> ((ev.globalX - s.view.panX) * s.view.den) \div s.view.num - s.view.originX,
   y |-> ((ev.globalY - s.view.panY) * s.view.den) \div s.view.num - s.view.originY]

\* TransformController.isDragging
isDragging(s) == s.dragState.mode # "none"

\* the snapshot taken by startMove / startResize / startRotate
Snapshot(s, elements) ==
  [id \in Range(elements) |->
     [x |-> s.elems[id].x, y |-> s.elems[id].y,
      width |-> Width(s.elems[id]), height |-> Height(s.elems[id]),
      rotation |-> s.elems[id].rotation]]

\* the start event each start method emits when elements is not empty
EmitStart(s, elements, type) ==
  IF Len(elements) > 0
  THEN Emit(s, [type |-> type, element |-> elements[1]])
  ELSE s

\* TransformController.startMove
startMove(s, elements, ev) ==
  LET world == toWorld(s, ev)
      started == [s EXCEPT !.activeElements = elements,
                           !.dragState = [mode |-> "move", startX |-> world.x,
                                          startY |-> world.y, handlePosition |-> "none",
                                          elementStartProps |-> Snapshot(s, elements)]]
  IN EmitStart(started, elements, "interaction:dragStart")

\* TransformController.startResize
startResize(s, elements, handlePosition, ev) ==
  LET world == toWorld(s, ev)
      started == [s EXCEPT !.activeElements = elements,
                           !.dragState = [mode |-> "resize", startX |-> world.x,
                                          startY |-> world.y,
                                          handlePosition |-> handlePosition,
                                          elementStartProps |-> Snapshot(s, elements)]]
  IN EmitStart(started, elements, "interaction:resizeStart")

\* TransformController.startRotate
startRotate(s, elements, ev) ==
  LET world == toWorld(s, ev)
      started == [s EXCEPT !.activeElements = elements,
                           !.dragState = [mode |-> "rotate", startX |-> world.x,
                                          startY |-> world.y, handlePosition |-> "none",
                                          elementStartProps |-> Snapshot(s, elements)]]
  IN EmitStart(started, elements, "interaction:rotateStart")

\* handleMove adding the delta to the live position instead of the snapshot
handleMove_FromLive(s, ev) ==
  LET world == toWorld(s, ev)
      dx == world.x - s.dragState.startX
      dy == world.y - s.dragState.startY
      moved == ForEach(LAMBDA u, id :
                         IF id \in DOMAIN s.dragState.elementStartProps
                         THEN SetY(SetX(u, id, u.elems[id].x + dx), id, u.elems[id].y + dy)
                         ELSE u,
                       s.activeElements, s)
  IN Emit(moved, [type |-> "interaction:dragMove", elements |-> s.activeElements,
                  dx |-> dx, dy |-> dy])

\* TransformController.handleMove
handleMove(s, ev) ==
  LET world == toWorld(s, ev)
      dx == world.x - s.dragState.startX
      dy == world.y - s.dragState.startY
      moved == ForEach(LAMBDA u, id :
                         IF id \in DOMAIN s.dragState.elementStartProps
                         THEN LET start == s.dragState.elementStartProps[id]
                              IN SetY(SetX(u, id, start.x + dx), id, start.y + dy)
                         ELSE u,
                       s.activeElements, s)
  IN Emit(moved, [type |-> "interaction:dragMove", elements |-> s.activeElements,
                  dx |-> dx, dy |-> dy])

\* the resize computation with a left handle that forgets to shift x
ResizeProps_LeftKeepsX(start, handle, dx, dy, constrain) ==
  LET x1 == start.x
      w1 == IF IncludesLeft(handle) THEN start.width - dx
            ELSE IF IncludesRight(handle) THEN start.width + dx ELSE start.width
      y1 == IF IncludesTop(handle) THEN start.y + dy ELSE start.y
      h1 == IF IncludesTop(handle) THEN start.height - dy
            ELSE IF IncludesBottom(handle) THEN start.height + dy ELSE start.height
      locked == constrain /\ start.width > 0 /\ start.height > 0
      isCorner == (IncludesLeft(handle) \/ IncludesRight(handle))
                  /\ (IncludesTop(handle) \/ IncludesBottom(handle))
      absDx == Abs(w1 - start.width)
      absDy == Abs(h1 - start.height)
      widthDrives == IF isCorner
                     THEN absDx * start.height >= absDy * start.width
                     ELSE handle \in {"middle-left", "middle-right"}
      \* width drives: newH = newW / aspect
      hNum == w1 * start.height
      h2 == IF locked /\ widthDrives THEN hNum \div start.width ELSE h1
      \* height drives: newW = newH * aspect
      wNum == h1 * start.width
      w2 == IF locked /\ ~widthDrives THEN wNum \div start.height ELSE w1
      y2 == IF locked /\ widthDrives
            THEN IF isCorner
                 THEN IF IncludesTop(handle) THEN start.y + start.height - h2 ELSE y1
                 ELSE (2 * start.y + start.height - h2) \div 2
            ELSE y1
      x2 == IF locked /\ ~widthDrives
            THEN IF isCorner
                 THEN IF IncludesLeft(handle) THEN start.x + start.width - w2 ELSE x1
                 ELSE (2 * start.x + start.width - w2) \div 2
            ELSE x1
      exact == ~locked
               \/ (widthDrives /\ hNum % start.width = 0
                   /\ (isCorner \/ (start.height - h2) % 2 = 0))
               \/ (~widthDrives /\ wNum % start.height = 0
                   /\ (isCorner \/ (start.width - w2) % 2 = 0))
      w3 == IF w2 < MinSize THEN MinSize ELSE w2
      x3 == IF w2 < MinSize /\ IncludesLeft(handle)
            THEN start.x + start.width - MinSize ELSE x2
      h3 == IF h2 < MinSize THEN MinSize ELSE h2
      y3 == IF h2 < MinSize /\ IncludesTop(handle)
            THEN start.y + start.height - MinSize ELSE y2
  IN [x |-> x3, y |-> y3, width |-> w3, height |-> h3, exact |-> exact]

\* the resize computation without the minimum-size clamp
ResizeProps_NoClamp(start, handle, dx, dy, constrain) ==
  LET x1 == IF IncludesLeft(handle) THEN start.x + dx ELSE start.x
      w1 == IF IncludesLeft(handle) THEN start.width - dx
            ELSE IF IncludesRight(handle) THEN start.width + dx ELSE start.width
      y1 == IF IncludesTop(handle) THEN start.y + dy ELSE start.y
      h1 == IF IncludesTop(handle) THEN start.height - dy
            ELSE IF IncludesBottom(handle) THEN start.height + dy ELSE start.height
      locked == constrain /\ start.width > 0 /\ start.height > 0
      isCorner == (IncludesLeft(handle) \/ IncludesRight(handle))
                  /\ (IncludesTop(handle) \/ IncludesBottom(handle))
      absDx == Abs(w1 - start.width)
      absDy == Abs(h1 - start.height)
      widthDrives == IF isCorner
                     THEN absDx * start.height >= absDy * start.width
                     ELSE handle \in {"middle-left", "middle-right"}
      \* width drives: newH = newW / aspect
      hNum == w1 * start.height
      h2 == IF locked /\ widthDrives THEN hNum \div start.width ELSE h1
      \* height drives: newW = newH * aspect
      wNum == h1 * start.width
      w2 == IF locked /\ ~widthDrives THEN wNum \div start.height ELSE w1
      y2 == IF locked /\ widthDrives
            THEN IF isCorner
                 THEN IF IncludesTop(handle) THEN start.y + start.height - h2 ELSE y1
                 ELSE (2 * start.y + start.height - h2) \div 2
            ELSE y1
      x2 == IF locked /\ ~widthDrives
            THEN IF isCorner
                 THEN IF IncludesLeft(handle) THEN start.x + start.width - w2 ELSE x1
                 ELSE (2 * start.x + start.width - w2) \div 2
            ELSE x1
      exact == ~locked
               \/ (widthDrives /\ hNum % start.width = 0
                   /\ (isCorner \/ (start.height - h2) % 2 = 0))
               \/ (~widthDrives /\ wNum % start.height = 0
                   /\ (isCorner \/ (start.width - w2) % 2 = 0))
      w3 == IF w2 < MinSize THEN MinSize ELSE w2
      x3 == IF w2 < MinSize /\ IncludesLeft(handle)
            THEN start.x + start.width - MinSize ELSE x2
      h3 == IF h2 < MinSize THEN MinSize ELSE h2
      y3 == IF h2 < MinSize /\ IncludesTop(handle)
            THEN start.y + start.height - MinSize ELSE y2
  IN [x |-> x2, y |-> y2, width |-> w2, height |-> h2, exact |-> exact]

\* the body of the loop of handleResize up to the four assignments: the new
\* x, y, width and height of one element from its snapshot.  aspect is
\* start.width / start.height; n / aspect is n * height / width and n * aspect
\* is n * width / height; exact tells whether these quotients are integers.
ResizeProps(start, handle, dx, dy, constrain) ==
  LET x1 == IF IncludesLeft(handle) THEN start.x + dx ELSE start.x
      w1 == IF IncludesLeft(handle) THEN start.width - dx
            ELSE IF IncludesRight(handle) THEN start.width + dx ELSE start.width
      y1 == IF IncludesTop(handle) THEN start.y + dy ELSE start.y
      h1 == IF IncludesTop(handle) THEN start.height - dy
            ELSE IF IncludesBottom(handle) THEN start.height + dy ELSE start.height
      locked == constrain /\ start.width > 0 /\ start.height > 0
      isCorner == (IncludesLeft(handle) \/ IncludesRight(handle))
                  /\ (IncludesTop(handle) \/ IncludesBottom(handle))
      absDx == Abs(w1 - start.width)
      absDy == Abs(h1 - start.height)
      widthDrives == IF isCorner
                     THEN absDx * start.height >= absDy * start.width
                     ELSE handle \in {"middle-left", "middle-right"}
      \* width drives: newH = newW / aspect
      hNum == w1 * start.height
      h2 == IF locked /\ widthDrives THEN hNum \div start.width ELSE h1
      \* height drives: newW = newH * aspect
      wNum == h1 * start.width
      w2 == IF locked /\ ~widthDrives THEN wNum \div start.height ELSE w1
      y2 == IF locked /\ widthDrives
            THEN IF isCorner
                 THEN IF IncludesTop(handle) THEN start.y + start.height - h2 ELSE y1
                 ELSE (2 * start.y + start.height - h2) \div 2
            ELSE y1
      x2 == IF locked /\ ~widthDrives
            THEN IF isCorner
                 THEN IF IncludesLeft(handle) THEN start.x + start.width - w2 ELSE x1
                 ELSE (2 * start.x + start.width - w2) \div 2
            ELSE x1
      exact == ~locked
               \/ (widthDrives /\ hNum % start.width = 0
                   /\ (isCorner \/ (start.height - h2) % 2 = 0))
               \/ (~widthDrives /\ wNum % start.height = 0
                   /\ (isCorner \/ (start.width - w2) % 2 = 0))
      w3 == IF w2 < MinSize THEN MinSize ELSE w2
      x3 == IF w2 < MinSize /\ IncludesLeft(handle)
            THEN start.x + start.width - MinSize ELSE x2
      h3 == IF h2 < MinSize THEN MinSize ELSE h2
      y3 == IF h2 < MinSize /\ IncludesTop(handle)
            THEN start.y + start.height - MinSize ELSE y2
  IN [x |-> x3, y |-> y3, width |-> w3, height |-> h3, exact |-> exact]

\* handleResize that resizes every element from the snapshot of the first
handleResize_FirstSnapshot(s, ev) ==
  IF s.dragState.handlePosition = "none" THEN s
  ELSE LET world == toWorld(s, ev)
           dx == world.x - s.dragState.startX
           dy == world.y - s.dragState.startY
       IN ForEach(LAMBDA u, id :
                    IF id \in DOMAIN s.dragState.elementStartProps
                    THEN LET new == ResizeProps(
                                      s.dragState.elementStartProps[s.activeElements[1]],
                                      s.dragState.handlePosition, dx, dy, ev.shiftKey)
                         IN SetHeight(SetWidth(SetY(SetX(u, id, new.x), id, new.y),
                                               id, new.width), id, new.height)
                    ELSE u,
                  s.activeElements, s)

\* TransformController.handleResize
handleResize(s, ev) ==
  IF s.dragState.handlePosition = "none" THEN s
  ELSE LET world == toWorld(s, ev)
           dx == world.x - s.dragState.startX
           dy == world.y - s.dragState.startY
       IN ForEach(LAMBDA u, id :
                    IF id \in DOMAIN s.dragState.elementStartProps
                    THEN LET new == ResizeProps(s.dragState.elementStartProps[id],
                                                s.dragState.handlePosition,
                                                dx, dy, ev.shiftKey)
                         IN SetHeight(SetWidth(SetY(SetX(u, id, new.x), id, new.y),
                                               id, new.width), id, new.height)
                    ELSE u,
                  s.activeElements, s)

\* Math.atan2(dy, dx) in units of 45 degrees, for the eight directions on
\* which it is a multiple of 45 degrees (and atan2(0, 0) = 0)
Atan2(dy, dx) ==
  CASE dy = 0 /\ dx >= 0 -> 0
    [] dy = 0 /\ dx < 0 -> 4
    [] dx = 0 /\ dy > 0 -> 2
    [] dx = 0 /\ dy < 0 -> 0 - 2
    [] dx > 0 /\ dy = dx -> 1
    [] dx < 0 /\ dy = 0 - dx -> 3
    [] dx < 0 /\ dy = dx -> 0 - 3
    [] dx > 0 /\ dy = 0 - dx -> 0 - 1

\* whether Atan2 is defined on (dy, dx)
OnOctant(dy, dx) == dy = 0 \/ dx = 0 \/ Abs(dy) = Abs(dx)

\* angleBetweenPoints(cx, cy, px, py) with the centre given doubled (2cx, 2cy):
\* the direction of (2px - 2cx, 2py - 2cy) is that of (px - cx, py - cy)
angleBetweenPoints(cx2, cy2, px, py) == Atan2(2 * py - cy2, 2 * px - cx2)

\* TransformController.handleRotate: the pivot is the live centre of the element
handleRotate(s, ev) ==
  LET world == toWorld(s, ev)
  IN ForEach(LAMBDA u, id :
               IF id \in DOMAIN s.dragState.elementStartProps
               THEN LET start == s.dragState.elementStartProps[id]
                        cx2 == 2 * u.elems[id].x + Width(u.elems[id])
                        cy2 == 2 * u.elems[id].y + Height(u.elems[id])
                        angle == angleBetweenPoints(cx2, cy2, world.x, world.y)
                        startAngle == angleBetweenPoints(cx2, cy2, s.dragState.startX,
                                                         s.dragState.startY)
                    IN SetRotation(u, id, start.rotation + (angle - startAngle))
               ELSE u,
             s.activeElements, s)

\* TransformController.onPointerMove
onPointerMove(s, ev) ==
  CASE s.dragState.mode = "move" -> handleMove(s, ev)
    [] s.dragState.mode = "resize" -> handleResize(s, ev)
    [] s.dragState.mode = "rotate" -> handleRotate(s, ev)
    [] OTHER -> s

\* onPointerUp that reports every gesture as a finished drag
onPointerUp_AlwaysDragEnd(s) ==
  IF ~isDragging(s) THEN s
  ELSE LET ended ==
             IF Len(s.activeElements) = 0 THEN s
             ELSE Emit(s, [type |-> "interaction:dragEnd", elements |-> s.activeElements])
       IN [ended EXCEPT !.dragState = NoDrag, !.activeElements = <<>>]

\* TransformController.onPointerUp
onPointerUp(s) ==
  IF ~isDragging(s) THEN s
  ELSE LET mode == s.dragState.mode
           ended ==
             IF Len(s.activeElements) = 0 THEN s
             ELSE CASE mode = "move" ->
                         Emit(s, [type |-> "interaction:dragEnd",
                                  elements |-> s.activeElements])
                    [] mode = "resize" ->
                         Emit(s, [type |-> "interaction:resizeEnd",
                                  element |-> s.activeElements[1]])
                    [] mode = "rotate" ->
                         Emit(s, [type |-> "interaction:rotateEnd",
                                  element |-> s.activeElements[1]])
       IN [ended EXCEPT !.dragState = NoDrag, !.activeElements = <<>>]

\* TransformController.cancel
cancel(s) ==
  IF ~isDragging(s) THEN s
  ELSE LET reverted ==
             ForEach(LAMBDA u, id :
                       IF id \in DOMAIN s.dragState.elementStartProps
                       THEN LET start == s.dragState.elementStartProps[id]
                            IN SetY(SetX(u, id, start.x), id, start.y)
                       ELSE u,
                     s.activeElements, s)
       IN [reverted EXCEPT !.dragState = NoDrag, !.activeElements = <<>>]

\* whether every quotient and angle the move handler takes on ev is exact
Deliverable(s, ev) ==
  LET world == toWorld(s, ev)
      dx == world.x - s.dragState.startX
      dy == world.y - s.dragState.startY
  IN \A id \in Range(s.activeElements) :
       CASE s.dragState.mode = "resize" ->
              ResizeProps(s.dragState.elementStartProps[id],
                          s.dragState.handlePosition, dx, dy, ev.shiftKey).exact
         [] s.dragState.mode = "rotate" ->
              LET cx2 == 2 * s.elems[id].x + Width(s.elems[id])
                  cy2 == 2 * s.elems[id].y + Height(s.elems[id])
              IN /\ OnOctant(2 * world.y - cy2, 2 * world.x - cx2)
                 /\ OnOctant(2 * s.dragState.startY - cy2, 2 * s.dragState.startX - cx2)
         [] OTHER -> TRUE

(* ---------------------------- SelectionManager pointer handlers -------- *)

\* display.getLocalBounds() of a rectangle or circle shape: the drawn
\* geometry starts at the local origin
getLocalBounds(e) == [x |-> 0, y |-> 0, width |-> Width(e), height |-> Height(e)]

\* MarqueeSelect.getRect
getRect(startX, startY, endX, endY) ==
  [x |-> IF startX < endX THEN startX ELSE endX,
   y |-> IF startY < endY THEN startY ELSE endY,
   width |-> Abs(endX - startX), height |-> Abs(endY - startY)]

\* an overlap test that also rejects rectangles meeting at an edge
boundsOverlap_Strict(a, b) ==
  ~(\/ a.x + a.width <= b.x
    \/ b.x + b.width <= a.x
    \/ a.y + a.height <= b.y
    \/ b.y + b.height <= a.y)

\* SelectionManager.boundsOverlap
boundsOverlap(a, b) ==
  ~(\/ a.x + a.width < b.x
    \/ b.x + b.width < a.x
    \/ a.y + a.height < b.y
    \/ b.y + b.height < a.y)

\* marquee dead zone of onStagePointerUp: rect.width > 3 || rect.height > 3
DeadZone == 3

\* a pointer-down that selects the clicked element alone on every plain click
handleElementPointerDown_AlwaysSelect(s, id, ev) ==
  IF ~s.elems[id].interactable THEN s
  ELSE LET chosen ==
             IF ev.shiftKey
             THEN IF id \in Range(s.selected) THEN deselect(s, id)
                  ELSE addToSelection(s, id)
             ELSE addToSelection(clearSelection(s), id)
       IN startMove([chosen EXCEPT !.isDraggingElement = TRUE], getSelected(chosen), ev)

\* SelectionManager.handleElementPointerDown
handleElementPointerDown(s, id, ev) ==
  IF ~s.elems[id].interactable THEN s
  ELSE LET chosen ==
             IF ev.shiftKey
             THEN IF id \in Range(s.selected) THEN deselect(s, id)
                  ELSE addToSelection(s, id)
             ELSE IF id \notin Range(s.selected)
                  THEN addToSelection(clearSelection(s), id)
                  ELSE s
       IN startMove([chosen EXCEPT !.isDraggingElement = TRUE], getSelected(chosen), ev)

\* SelectionManager.handleElementPointerMove
handleElementPointerMove(s, ev) ==
  IF s.isDraggingElement /\ isDragging(s)
  THEN updateSelectionVisuals(onPointerMove(s, ev))
  ELSE s

\* SelectionManager.handleElementPointerUp
handleElementPointerUp(s) ==
  IF s.isDraggingElement
  THEN updateSelectionVisuals(onPointerUp([s EXCEPT !.isDraggingElement = FALSE]))
  ELSE s

\* SelectionManager.wireHandleEvents: pointerdown on a handle of the box
handlePointerDown(s, position, ev) ==
  IF position = "rotate"
  THEN startRotate(s, getSelected(s), ev)
  ELSE startResize(s, getSelected(s), position, ev)

\* a background pointer-down that clears the selection whatever the modifier
onStagePointerDown_AlwaysClears(s, ev) ==
  LET cleared == clearSelection(s)
      world == toWorld(s, ev)
  IN [cleared EXCEPT !.isMarqueeActive = TRUE,
                     !.marqueeStart = [x |-> world.x, y |-> world.y]]

\* SelectionManager.onStagePointerDown
onStagePointerDown(s, ev) ==
  LET cleared == IF ~ev.shiftKey THEN clearSelection(s) ELSE s
      world == toWorld(s, ev)
  IN [cleared EXCEPT !.isMarqueeActive = TRUE,
                     !.marqueeStart = [x |-> world.x, y |-> world.y]]

\* a stage move handler that reports a drag move whether or not a gesture is
\* active
onStagePointerMove_ReportsIdle(s, ev) ==
  IF s.isDraggingElement THEN s
  ELSE IF isDragging(s)
       THEN updateSelectionVisuals(onPointerMove(s, ev))
       ELSE Emit(s, [type |-> "interaction:dragMove", elements |-> <<>>])

\* SelectionManager.onStagePointerMove (drawing the marquee changes no state)
onStagePointerMove(s, ev) ==
  IF isDragging(s) /\ ~s.isDraggingElement
  THEN updateSelectionVisuals(onPointerMove(s, ev))
  ELSE s

\* a marquee that also picks up elements that are not interactable
onStagePointerUp_IgnoresInteractable(s, ev) ==
  LET ended == IF isDragging(s) /\ ~s.isDraggingElement
               THEN updateSelectionVisuals(onPointerUp(s))
               ELSE s
  IN IF ~ended.isMarqueeActive THEN ended
     ELSE LET off == [ended EXCEPT !.isMarqueeActive = FALSE]
              world == toWorld(s, ev)
              rect == getRect(off.marqueeStart.x, off.marqueeStart.y, world.x, world.y)
          IN IF rect.width > DeadZone \/ rect.height > DeadZone
             THEN LET hit ==
                        ForEach(LAMBDA u, id :
                                  LET el == u.elems[id]
                                      lb == getLocalBounds(el)
                                      elBounds == [x |-> el.x + lb.x, y |-> el.y + lb.y,
                                                   width |-> lb.width, height |-> lb.height]
                                  IN IF boundsOverlap(rect, elBounds)
                                     THEN [u EXCEPT !.selected = SeqAdd(u.selected, id)]
                                     ELSE u,
                                off.scene, off)
                  IN IF Len(hit.selected) > 0
                     THEN LET shown == updateSelectionVisuals(hit)
                          IN Emit(shown, [type |-> "selection:changed",
                                          selected |-> getSelected(shown)])
                     ELSE hit
             ELSE off

\* SelectionManager.onStagePointerUp
onStagePointerUp(s, ev) ==
  LET ended == IF isDragging(s) /\ ~s.isDraggingElement
               THEN updateSelectionVisuals(onPointerUp(s))
               ELSE s
  IN IF ~ended.isMarqueeActive THEN ended
     ELSE LET off == [ended EXCEPT !.isMarqueeActive = FALSE]
              world == toWorld(s, ev)
              rect == getRect(off.marqueeStart.x, off.marqueeStart.y, world.x, world.y)
          IN IF rect.width > DeadZone \/ rect.height > DeadZone
             THEN LET hit ==
                        ForEach(LAMBDA u, id :
                                  LET el == u.elems[id]
                                      lb == getLocalBounds(el)
                                      elBounds == [x |-> el.x + lb.x, y |-> el.y + lb.y,
                                                   width |-> lb.width, height |-> lb.height]
                                  IN IF el.interactable /\ boundsOverlap(rect, elBounds)
                                     THEN [u EXCEPT !.selected = SeqAdd(u.selected, id)]
                                     ELSE u,
                                off.scene, off)
                  IN IF Len(hit.selected) > 0
                     THEN LET shown == updateSelectionVisuals(hit)
                          IN Emit(shown, [type |-> "selection:changed",
                                          selected |-> getSelected(shown)])
                     ELSE hit
             ELSE off

(* ---------------------------- combined bounds -------------------------- *)

\* the Infinity the fold of computeCombinedBounds starts from: beyond every
\* coordinate of the model
Infinity == 1000000

\* the loop of computeCombinedBounds: the running minX, minY, maxX, maxY
RECURSIVE BoundsFold(_, _, _)
BoundsFold(s, list, acc) ==
  IF list = <<>> THEN acc
  ELSE LET el == s.elems[Head(list)]
           b == getLocalBounds(el)
           wx == el.x + b.x
           wy == el.y + b.y
       IN BoundsFold(s, Tail(list),
                     [minX |-> Min2(acc.minX, wx), minY |-> Min2(acc.minY, wy),
                      maxX |-> Max2(acc.maxX, wx + b.width),
                      maxY |-> Max2(acc.maxY, wy + b.height)])

\* combined bounds that take their origin from the last element
computeCombinedBounds_LastOrigin(s, list) ==
  LET acc == BoundsFold(s, list, [minX |-> Infinity, minY |-> Infinity,
                                  maxX |-> 0 - Infinity, maxY |-> 0 - Infinity])
      last == s.elems[list[Len(list)]]
  IN IF list = <<>>
     THEN [x |-> acc.minX, y |-> acc.minY,
           width |-> acc.maxX - acc.minX, height |-> acc.maxY - acc.minY]
     ELSE [x |-> last.x, y |-> last.y,
           width |-> acc.maxX - last.x, height |-> acc.maxY - last.y]

\* SelectionManager.computeCombinedBounds
computeCombinedBounds(s, list) ==
  LET acc == BoundsFold(s, list, [minX |-> Infinity, minY |-> Infinity,
                                  maxX |-> 0 - Infinity, maxY |-> 0 - Infinity])
  IN [x |-> acc.minX, y |-> acc.minY,
      width |-> acc.maxX - acc.minX, height |-> acc.maxY - acc.minY]

(* ---------------------------- ZOrderManager ---------------------------- *)

\* Array.prototype.sort((a, b) => a.zIndex - b.zIndex): stable, ascending
RECURSIVE SortByZ(_, _)
SortByZ(q, es) ==
  IF q = <<>> THEN <<>>
  ELSE LET init == SortByZ(SubSeq(q, 1, Len(q) - 1), es)
           last == q[Len(q)]
           k == Cardinality({i \in 1..Len(init) : es[init[i]].zIndex <= es[last].zIndex})
       IN SubSeq(init, 1, k) \o <<last>> \o SubSeq(init, k + 1, Len(init))

\* ZOrderManager.getSortedByZ
getSortedByZ(s) == SortByZ(s.scene, s.elems)

\* Array.prototype.indexOf, counted from 1; 0 when absent
IndexOf(q, v) ==
  IF v \in Range(q) THEN CHOOSE i \in 1..Len(q) : q[i] = v ELSE 0

\* Math.max over a non-empty set of integers
MaxOf(S) == CHOOSE m \in S : \A n \in S : n <= m

\* Math.min over a non-empty set of integers
MinOf(S) == CHOOSE m \in S : \A n \in S : m <= n

\* ZOrderManager.getMaxZIndex
getMaxZIndex(s) ==
  IF Len(s.scene) = 0 THEN 0 ELSE MaxOf({s.elems[id].zIndex : id \in Range(s.scene)})

\* ZOrderManager.getMinZIndex
getMinZIndex(s) ==
  IF Len(s.scene) = 0 THEN 0 ELSE MinOf({s.elems[id].zIndex : id \in Range(s.scene)})

\* bringToFront that reuses the current maximum
bringToFront_NoIncrement(s, id) == SetZIndex(s, id, getMaxZIndex(s))

\* ZOrderManager.bringToFront
bringToFront(s, id) == SetZIndex(s, id, getMaxZIndex(s) + 1)

\* ZOrderManager.sendToBack
sendToBack(s, id) == SetZIndex(s, id, getMinZIndex(s) - 1)

\* moveForward that jumps over the neighbour instead of exchanging keys
moveForward_Jump(s, id) ==
  LET all == getSortedByZ(s)
      idx == IndexOf(all, id)
  IN IF idx = 0 \/ idx >= Len(all) THEN s
     ELSE SetZIndex(s, id, s.elems[all[idx + 1]].zIndex + 1)

\* ZOrderManager.moveForward
moveForward(s, id) ==
  LET all == getSortedByZ(s)
      idx == IndexOf(all, id)
  IN IF idx = 0 \/ idx >= Len(all) THEN s
     ELSE LET nextEl == all[idx + 1]
              nextZ == s.elems[nextEl].zIndex
          IN SetZIndex(SetZIndex(s, nextEl, s.elems[id].zIndex), id, nextZ)

\* ZOrderManager.moveBackward
moveBackward(s, id) ==
  LET all == getSortedByZ(s)
      idx == IndexOf(all, id)
  IN IF idx <= 1 THEN s
     ELSE LET prevEl == all[idx - 1]
              prevZ == s.elems[prevEl].zIndex
          IN SetZIndex(SetZIndex(s, prevEl, s.elems[id].zIndex), id, prevZ)

(* ---------------------------- inputs ----------------------------------- *)

\* world points at which pointer events occur
WorldPts == {<<0, 0>>, <<20, 10>>, <<120, 60>>, <<60, -20>>, <<115, 35>>}

\* FederatedPointerEvent: position and the shift modifier
Events == {[globalX |-> p[1], globalY |-> p[2], shiftKey |-> k] : p \in WorldPts, k \in BOOLEAN}

\* the values the application assigns to a property through its setter
AssignValues(property) ==
  CASE property = "x" -> {10, 30}
    [] property = "y" -> {10, 30}
    [] property = "rotation" -> {0, 2}
    [] property = "zIndex" -> {0, 1}
    [] property = "interactable" -> BOOLEAN
    [] property = "width" -> {20, 60}
    [] property = "height" -> {20, 60}

\* the reactive properties of BaseElement kept in the model
BaseProperties == {"x", "y", "rotation", "zIndex", "interactable"}

\* pointer-down events at the world origin, with and without shift
ClickEvents == {[globalX |-> 0, globalY |-> 0, shiftKey |-> k] : k \in BOOLEAN}

\* pointer-up events ending a marquee: inside the dead zone, and far corner
ReleaseEvents ==
  {[globalX |-> p[1], globalY |-> p[2], shiftKey |-> FALSE] : p \in {<<0, 0>>, <<120, 60>>}}

\* keyboard nudges: KeyboardShortcutsPlugin calls nudgeSelected with one axis set
Nudges == {<<1, 0>>, <<0, -1>>}

NoEvent == [globalX |-> 0, globalY |-> 0, shiftKey |-> FALSE]

NoAction == [element |-> 0, property |-> "none", oldValue |-> 0, newValue |-> 0]

\* the record kept in lastOp for a top-level call
Op(op, el, ev, handle, action) ==
  [op |-> op, el |-> el, ev |-> ev, handle |-> handle, action |-> action]

(* ---------------------------- initial states --------------------------- *)

\* after new WatchfaceEngine(...) and init(): empty scene, nothing selected,
\* no gesture; the UndoRedoPlugin is registered or not
Constructed ==
  /\ elems = [i \in Ids |-> Proto(i)]
  /\ scene = <<>>
  /\ selected = <<>>
  /\ clipboard = <<>>
  /\ view = IdentityView
  /\ boxVisible = FALSE
  /\ rotateShown = FALSE
  /\ isMarqueeActive = FALSE
  /\ marqueeStart = [x |-> 0, y |-> 0]
  /\ isDraggingElement = FALSE
  /\ dragState = NoDrag
  /\ activeElements = <<>>
  /\ suppress = FALSE
  /\ plugin \in BOOLEAN
  /\ undoStack = <<>>
  /\ redoStack = <<>>
  /\ events = <<>>
  /\ lastOp = Op("init", 0, NoEvent, "none", NoAction)
  /\ gestures = 0
  /\ edits = 0

Init ==
  /\ Constructed
  /\ probe = [f |-> "none"]

(* ---------------------------- actions ---------------------------------- *)

Call(op, s) ==
  /\ Commit(s)
  /\ lastOp' = op
  /\ UNCHANGED <<gestures, edits, probe>>

CallGesture(op, s) ==
  /\ gestures < MaxGestures
  /\ Commit(s)
  /\ lastOp' = op
  /\ gestures' = gestures + 1
  /\ UNCHANGED <<edits, probe>>

CallEdit(op, s) ==
  /\ edits < MaxEdits
  /\ Commit(s)
  /\ lastOp' = op
  /\ edits' = edits + 1
  /\ UNCHANGED <<gestures, probe>>

\* objects no collection or closure refers to: what a constructor returns
Fresh ==
  {i \in Ids :
     /\ i \notin Range(scene) \cup Range(selected) \cup Range(activeElements)
     /\ \A k \in 1..Len(undoStack) : undoStack[k].element # i
     /\ \A k \in 1..Len(redoStack) : redoStack[k].element # i}

Add ==
  \E id \in Ids : Call(Op("add", id, NoEvent, "none", NoAction), ElementManagerAdd(St, id))

Remove ==
  \E id \in Ids : Call(Op("remove", id, NoEvent, "none", NoAction), ElementManagerRemove(St, id))

Clear ==
  Call(Op("clear", 0, NoEvent, "none", NoAction), ElementManagerClear(St))

Deserialize ==
  \E ids \in {<<>>} \cup {<<i>> : i \in Fresh} :
    Call(Op("deserialize", 0, NoEvent, "none", NoAction), deserialize(St, ids))

Select ==
  \E id \in Range(scene) : Call(Op("select", id, NoEvent, "none", NoAction), select(St, id))

AddToSelection ==
  \E id \in Range(scene) :
    Call(Op("addToSelection", id, NoEvent, "none", NoAction), addToSelection(St, id))

Deselect ==
  \E id \in Ids : Call(Op("deselect", id, NoEvent, "none", NoAction), deselect(St, id))

ClearSelection ==
  Call(Op("clearSelection", 0, NoEvent, "none", NoAction), clearSelection(St))

SelectAll ==
  Call(Op("selectAll", 0, NoEvent, "none", NoAction), selectAll(St))

DeleteSelected ==
  Call(Op("deleteSelected", 0, NoEvent, "none", NoAction), deleteSelected(St))

NudgeSelectedBy(ds) ==
  \E d \in ds :
    CallEdit(Op("nudgeSelected", 0, NoEvent, "none", NoAction), nudgeSelected(St, d[1], d[2]))

\* selection.nudgeSelected(dx, dy), as the arrow keys call it
NudgeSelected == NudgeSelectedBy(Nudges)

AssignOf(properties) ==
  \E id \in Ids, property \in properties :
    \E value \in AssignValues(property) :
      CallEdit(Op("assign", id, NoEvent, "none",
                  [element |-> id, property |-> property,
                   oldValue |-> GetProperty(elems[id], property), newValue |-> value]),
               SetProperty(St, id, property, value))

\* element[property] = value for any reactive property of BaseElement
Assign == AssignOf(BaseProperties)

\* element.interactable = value
AssignInteractable == AssignOf({"interactable"})

ElementPointerDownAt(evs) ==
  \E id \in Range(scene), ev \in evs :
    CallGesture(Op("elementPointerDown", id, ev, "none", NoAction),
                handleElementPointerDown(St, id, ev))

\* pointerdown on the display object of a scene element
ElementPointerDown == ElementPointerDownAt(Events)

ElementPointerMoveAt(evs) ==
  \E ev \in evs :
    /\ scene # <<>>
    /\ Deliverable(St, ev)
    /\ Call(Op("elementPointerMove", 0, ev, "none", NoAction), handleElementPointerMove(St, ev))

\* globalpointermove on the display object of a scene element
ElementPointerMove == ElementPointerMoveAt(Events)

ElementPointerUp ==
  /\ scene # <<>>
  /\ Call(Op("elementPointerUp", 0, NoEvent, "none", NoAction), handleElementPointerUp(St))

HandlePointerDownAt(evs) ==
  \E position \in HandlePositions \cup {"rotate"}, ev \in evs :
    /\ boxVisible
    /\ position = "rotate" => rotateShown
    /\ CallGesture(Op("handlePointerDown", 0, ev, position, NoAction),
                   handlePointerDown(St, position, ev))

\* pointerdown on a handle of the selection box
HandlePointerDown == HandlePointerDownAt(Events)

\* transformController.startResize(selection.getSelected(), tag, event)
StartResizeAt(tags, evs) ==
  \E tag \in tags, ev \in evs :
    CallGesture(Op("startResize", 0, ev, tag, NoAction),
                startResize(St, getSelected(St), tag, ev))

StagePointerDownAt(evs) ==
  \E ev \in evs :
    Call(Op("stagePointerDown", 0, ev, "none", NoAction), onStagePointerDown(St, ev))

\* pointerdown that reaches the stage
StagePointerDown == StagePointerDownAt(Events)

StagePointerMoveAt(evs) ==
  \E ev \in evs :
    /\ Deliverable(St, ev)
    /\ Call(Op("stagePointerMove", 0, ev, "none", NoAction), onStagePointerMove(St, ev))

\* globalpointermove on the stage
StagePointerMove == StagePointerMoveAt(Events)

StagePointerUpAt(evs) ==
  \E ev \in evs :
    Call(Op("stagePointerUp", 0, ev, "none", NoAction), onStagePointerUp(St, ev))

\* pointerup / pointerupoutside on the stage
StagePointerUp == StagePointerUpAt(Events)

Cancel ==
  Call(Op("cancel", 0, NoEvent, "none", NoAction), cancel(St))

Undo ==
  /\ plugin
  /\ Call(Op("undo", 0, NoEvent, "none",
             IF Len(undoStack) > 0 THEN undoStack[Len(undoStack)] ELSE NoAction),
          PluginUndo(St))

Redo ==
  /\ plugin
  /\ Call(Op("redo", 0, NoEvent, "none",
             IF Len(redoStack) > 0 THEN redoStack[Len(redoStack)] ELSE NoAction),
          PluginRedo(St))

\* img.onload of an ImageElement whose image has not loaded yet
ImageLoaded ==
  \E id \in DOMAIN elems :
    /\ elems[id].kind = "image"
    /\ ~elems[id].sp.loaded
    /\ Call(Op("onload", id, NoEvent, "none", NoAction), onload(St, id))

\* the actions the plugin holds, oldest first: undo stack, then redo stack
HeldActions == undoStack \o redoStack

\* A.undo(); A.redo() on an action a listener of action:performed holds
CallUndoRedo ==
  \E k \in 1..Len(HeldActions) :
    LET a == HeldActions[k]
    IN Call(Op("A.undo;A.redo", a.element, NoEvent, "none", a),
            IF Throws(a) THEN ActionUndo(St, a) ELSE ActionRedo(ActionUndo(St, a), a))

\* A.redo(); A.undo() on an action a listener of action:performed holds
CallRedoUndo ==
  \E k \in 1..Len(HeldActions) :
    LET a == HeldActions[k]
    IN Call(Op("A.redo;A.undo", a.element, NoEvent, "none", a),
            IF Throws(a) THEN ActionRedo(St, a) ELSE ActionUndo(ActionRedo(St, a), a))

\* z keys stay within -MaxKey .. MaxKey
MaxKey == 1

\* engine.zOrder calls on the elements ids (in the scene or not)
BringToFrontOf(ids) ==
  \E id \in ids :
    /\ getMaxZIndex(St) + 1 <= MaxKey
    /\ Call(Op("bringToFront", id, NoEvent, "none", NoAction), bringToFront(St, id))

SendToBackOf(ids) ==
  \E id \in ids :
    /\ getMinZIndex(St) - 1 >= 0 - MaxKey
    /\ Call(Op("sendToBack", id, NoEvent, "none", NoAction), sendToBack(St, id))

MoveForwardOf(ids) ==
  \E id \in ids :
    Call(Op("moveForward", id, NoEvent, "none", NoAction), moveForward(St, id))

MoveBackwardOf(ids) ==
  \E id \in ids :
    Call(Op("moveBackward", id, NoEvent, "none", NoAction), moveBackward(St, id))

\* moveForward(e) immediately followed by moveBackward(e)
MoveForwardBackwardOf(ids) ==
  \E id \in ids :
    Call(Op("moveForward;moveBackward", id, NoEvent, "none", NoAction),
         moveBackward(moveForward(St, id), id))

\* moveBackward(e) immediately followed by moveForward(e)
MoveBackwardForwardOf(ids) ==
  \E id \in ids :
    Call(Op("moveBackward;moveForward", id, NoEvent, "none", NoAction),
         moveForward(moveBackward(St, id), id))

\* one copy per run
CopySelected ==
  /\ clipboard = <<>>
  /\ Call(Op("copySelected", 0, NoEvent, "none", NoAction), copySelected(St))

\* a paste needs one object per clipboard entry that deserializes
PasteClipboard ==
  /\ Cardinality({k \in 1..Len(clipboard) : Deserializes(clipboard[k])})
       <= Cardinality(Unused(St))
  /\ Call(Op("pasteClipboard", 0, NoEvent, "none", NoAction), pasteClipboard(St))

Next ==
  \/ CopySelected
  \/ PasteClipboard
  \/ Add
  \/ Remove
  \/ Clear
  \/ Deserialize
  \/ Select
  \/ AddToSelection
  \/ Deselect
  \/ ClearSelection
  \/ SelectAll
  \/ DeleteSelected
  \/ NudgeSelected
  \/ Assign
  \/ ElementPointerDown
  \/ ElementPointerMove
  \/ ElementPointerUp
  \/ HandlePointerDown
  \/ StagePointerDown
  \/ StagePointerMove
  \/ StagePointerUp
  \/ Cancel
  \/ Undo
  \/ Redo
  \/ CallUndoRedo
  \/ CallRedoUndo
  \/ BringToFrontOf(Ids)
  \/ SendToBackOf(Ids)
  \/ MoveForwardOf(Ids)
  \/ MoveBackwardOf(Ids)
  \/ MoveForwardBackwardOf(Ids)
  \/ MoveBackwardForwardOf(Ids)

Spec == Init /\ [][Next]_vars

(* ---------------------------- sub-machines ----------------------------- *)

\* Scene and selection operations, pointer-down/up and the marquee; no pointer
\* moves, no history plugin.
InitSelection == Init /\ ~plugin

NextSelection ==
  \/ Add
  \/ Remove
  \/ Clear
  \/ Deserialize
  \/ Select
  \/ AddToSelection
  \/ Deselect
  \/ ClearSelection
  \/ SelectAll
  \/ DeleteSelected
  \/ AssignInteractable
  \/ ElementPointerDownAt(ClickEvents)
  \/ ElementPointerUp
  \/ StagePointerDownAt(ClickEvents)
  \/ StagePointerUpAt(ReleaseEvents)

SpecSelection == InitSelection /\ [][NextSelection]_vars

\* the state after adding both elements and selecting sel, as a record
SceneWith(sel, withPlugin) ==
  LET start == [elems |-> [i \in Ids |-> Proto(i)], scene |-> <<>>, selected |-> <<>>,
                clipboard |-> <<>>, view |-> IdentityView,
                boxVisible |-> FALSE, rotateShown |-> FALSE, isMarqueeActive |-> FALSE,
                marqueeStart |-> [x |-> 0, y |-> 0], isDraggingElement |-> FALSE,
                dragState |-> NoDrag, activeElements |-> <<>>, suppress |-> FALSE,
                plugin |-> withPlugin, undoStack |-> <<>>, redoStack |-> <<>>,
                events |-> <<>>]
      added == ForEach(LAMBDA u, id : ElementManagerAdd(u, id),
                       [i \in 1..MaxElems |-> i], start)
  IN [ForEach(LAMBDA u, id : addToSelection(u, id), sel, added) EXCEPT !.events = <<>>]

InitWith(sels, withPlugin) ==
  /\ \E sel \in sels :
       LET s == SceneWith(sel, withPlugin)
       IN /\ elems = s.elems
          /\ scene = s.scene
          /\ selected = s.selected
          /\ clipboard = s.clipboard
          /\ view = s.view
          /\ boxVisible = s.boxVisible
          /\ rotateShown = s.rotateShown
          /\ isMarqueeActive = s.isMarqueeActive
          /\ marqueeStart = s.marqueeStart
          /\ isDraggingElement = s.isDraggingElement
          /\ dragState = s.dragState
          /\ activeElements = s.activeElements
          /\ suppress = s.suppress
          /\ plugin = s.plugin
          /\ undoStack = s.undoStack
          /\ redoStack = s.redoStack
          /\ events = s.events
  /\ lastOp = Op("init", 0, NoEvent, "none", NoAction)
  /\ gestures = 0
  /\ edits = 0
  /\ probe = [f |-> "none"]

\* Gestures over a populated scene: every element added, one or all selected.
InitGesture == InitWith({<<1>>, <<2>>, <<1, 2>>}, FALSE)

NextGesture ==
  \/ ElementPointerDown
  \/ ElementPointerMove
  \/ ElementPointerUp
  \/ HandlePointerDown
  \/ StagePointerMove
  \/ StagePointerUp
  \/ Cancel

SpecGesture == InitGesture /\ [][NextGesture]_vars

\* Property edits and their history: populated scene, UndoRedoPlugin registered.
InitHistory == InitWith({<<>>, <<1>>}, TRUE)

NextHistory ==
  \/ Assign
  \/ NudgeSelected
  \/ Remove
  \/ Undo
  \/ Redo
  \/ CallUndoRedo
  \/ CallRedoUndo

SpecHistory == InitHistory /\ [][NextHistory]_vars

\* Direct calls of boundsOverlap on rectangles with small integer sides.
MaxCoord == 2

Rects == [x : 0..MaxCoord, y : 0..MaxCoord, width : 0..MaxCoord, height : 0..MaxCoord]

\* the arguments of the call are drawn when the behaviour starts
InitOverlap ==
  /\ Constructed
  /\ ~plugin
  /\ \E a \in Rects, b \in Rects : probe = [f |-> "args", a |-> a, b |-> b, result |-> FALSE]

CallBoundsOverlap ==
  /\ probe.f = "args"
  /\ probe' = [probe EXCEPT !.f = "boundsOverlap", !.result = boundsOverlap(probe.a, probe.b)]
  /\ UNCHANGED <<elems, scene, selected, clipboard, view, boxVisible, rotateShown,
                 isMarqueeActive, marqueeStart, isDraggingElement, dragState,
                 activeElements, suppress, plugin, undoStack, redoStack, events,
                 lastOp, gestures, edits>>

NextOverlap == CallBoundsOverlap

SpecOverlap == InitOverlap /\ [][NextOverlap]_vars

\* Larger scenes, for the operations that range over the whole scene.
MaxScene == 4

SceneIds == 1..MaxScene

\* the state after adding the first k of the MaxScene constructed elements
SceneOf(k) ==
  LET start == [elems |-> [i \in SceneIds |-> Proto(i)], scene |-> <<>>, selected |-> <<>>,
                clipboard |-> <<>>, view |-> IdentityView,
                boxVisible |-> FALSE, rotateShown |-> FALSE, isMarqueeActive |-> FALSE,
                marqueeStart |-> [x |-> 0, y |-> 0], isDraggingElement |-> FALSE,
                dragState |-> NoDrag, activeElements |-> <<>>, suppress |-> FALSE,
                plugin |-> FALSE, undoStack |-> <<>>, redoStack |-> <<>>,
                events |-> <<>>]
  IN [ForEach(LAMBDA u, id : ElementManagerAdd(u, id), [i \in 1..k |-> i], start)
        EXCEPT !.events = <<>>]

\* the variables hold the program state s, before any call on it
InitFrom(s) ==
  /\ elems = s.elems
  /\ scene = s.scene
  /\ selected = s.selected
  /\ clipboard = s.clipboard
  /\ view = s.view
  /\ boxVisible = s.boxVisible
  /\ rotateShown = s.rotateShown
  /\ isMarqueeActive = s.isMarqueeActive
  /\ marqueeStart = s.marqueeStart
  /\ isDraggingElement = s.isDraggingElement
  /\ dragState = s.dragState
  /\ activeElements = s.activeElements
  /\ suppress = s.suppress
  /\ plugin = s.plugin
  /\ undoStack = s.undoStack
  /\ redoStack = s.redoStack
  /\ events = s.events
  /\ lastOp = Op("init", 0, NoEvent, "none", NoAction)
  /\ gestures = 0
  /\ edits = 0
  /\ probe = [f |-> "none"]

\* Stacking order: all elements constructed, all or all but the last one added.
InitZOrder == \E k \in {MaxScene - 1, MaxScene} : InitFrom(SceneOf(k))

NextZOrder ==
  \/ BringToFrontOf(SceneIds)
  \/ SendToBackOf(SceneIds)
  \/ MoveForwardOf(SceneIds)
  \/ MoveBackwardOf(SceneIds)
  \/ MoveForwardBackwardOf(SceneIds)
  \/ MoveBackwardForwardOf(SceneIds)

SpecZOrder == InitZOrder /\ [][NextZOrder]_vars

\* selectAll over scenes with interactable and non-interactable elements:
\* the application has set element.interactable on some of them.
InitSelectAll ==
  \E k \in {MaxScene - 1, MaxScene}, ia \in [SceneIds -> BOOLEAN] :
    InitFrom([ForEach(LAMBDA u, id : SetInteractable(u, id, ia[id]),
                      [i \in SceneIds |-> i], SceneOf(k))
                EXCEPT !.events = <<>>])

NextSelectAll ==
  \/ SelectAll
  \/ Select
  \/ AddToSelection
  \/ ClearSelection

SpecSelectAll == InitSelectAll /\ [][NextSelectAll]_vars

\* Selection changes of every kind together with pointer-downs on the
\* handles of the selection box.
NextHandles ==
  \/ NextSelection
  \/ HandlePointerDownAt(ClickEvents)

SpecHandles == InitSelection /\ [][NextHandles]_vars

\* Gestures during which the application removes elements from the scene.
NextRemoval ==
  \/ ElementPointerDownAt(ClickEvents)
  \/ ElementPointerMove
  \/ ElementPointerUp
  \/ StagePointerMove
  \/ StagePointerUpAt(ReleaseEvents)
  \/ Remove

SpecRemoval == InitGesture /\ [][NextRemoval]_vars

\* Combined bounds: the elements placed by assignments to x and y, and
\* computeCombinedBounds called on lists of them.
BoundsXs == {-30, 10, 60}

BoundsYs == {0, 10}

\* the lists of distinct elements (a Set's iteration order)
RECURSIVE ListsOf(_)
ListsOf(S) ==
  {<<>>} \cup UNION {{<<v>> \o q : q \in ListsOf(S \ {v})} : v \in S}

InitBounds ==
  \E xs \in [Ids -> BoundsXs], ys \in [Ids -> BoundsYs] :
    InitFrom([ForEach(LAMBDA u, id : SetY(SetX(u, id, xs[id]), id, ys[id]),
                      [i \in Ids |-> i], SceneWith(<<>>, FALSE))
                EXCEPT !.events = <<>>])

\* computeCombinedBounds of a list, of the list with the element o added and
\* of the list with the element o removed
CallCombinedBounds ==
  /\ \E list \in ListsOf(Ids) \ {<<>>}, o \in Ids :
       probe' = [f |-> "computeCombinedBounds", list |-> list, o |-> o,
                 bounds |-> computeCombinedBounds(St, list),
                 more |-> computeCombinedBounds(St, SeqAdd(list, o)),
                 less |-> computeCombinedBounds(St, SeqDelete(list, o))]
  /\ UNCHANGED <<elems, scene, selected, clipboard, view, boxVisible, rotateShown,
                 isMarqueeActive, marqueeStart, isDraggingElement, dragState,
                 activeElements, suppress, plugin, undoStack, redoStack, events,
                 lastOp, gestures, edits>>

NextBounds == CallCombinedBounds

SpecBounds == InitBounds /\ [][NextBounds]_vars

\* objects the application and the clipboard can create in a run
MaxObjects == 5

ObjectIds == 1..MaxObjects

\* selections of the three scene elements, in the order they were selected
Selections ==
  {<<>>} \cup {<<i>> : i \in 1..3}
         \cup {<<i, j>> : i, j \in 1..3} \cup {<<i, j, k>> : i, j, k \in 1..3}

\* Copy and paste: three elements in the scene, the second one a circle or an
\* element of a type the registry does not know, some of them selected; the
\* other objects are not constructed yet.
InitClipboard ==
  \E second \in {CircleProto, CustomProto}, sel \in Selections :
    LET start == [SceneOf(0) EXCEPT
                    !.elems = [i \in ObjectIds |-> IF i = 2 THEN second ELSE Proto(i)]]
        added == ForEach(LAMBDA u, id : ElementManagerAdd(u, id), <<1, 2, 3>>, start)
    IN InitFrom([ForEach(LAMBDA u, id : addToSelection(u, id), sel, added)
                   EXCEPT !.events = <<>>])

NextClipboard ==
  \/ Select
  \/ NudgeSelected
  \/ CopySelected
  \/ PasteClipboard

SpecClipboard == InitClipboard /\ [][NextClipboard]_vars

\* Marquee selection: elements placed left of, on and right of x = 50 by
\* assignments to element.x, interactable or not.
MarqueeXs == {10, 50, 51}

\* background pointer-down events
MarqueeDowns ==
  {[globalX |-> p[1], globalY |-> p[2], shiftKey |-> k] :
     p \in {<<0, 0>>, <<20, 10>>}, k \in BOOLEAN}

\* pointer-up events: inside, on the edge of and beyond the dead zone
MarqueeUps ==
  {[globalX |-> p[1], globalY |-> p[2], shiftKey |-> FALSE] :
     p \in {<<0, 0>>, <<3, 3>>, <<4, 0>>, <<20, 10>>, <<50, 50>>}}

InitMarquee ==
  \E sel \in {<<>>, <<1>>}, xs \in [Ids -> MarqueeXs], ia \in [Ids -> BOOLEAN] :
    InitFrom([ForEach(LAMBDA u, id : SetInteractable(SetX(u, id, xs[id]), id, ia[id]),
                      [i \in Ids |-> i], SceneWith(sel, FALSE))
                EXCEPT !.events = <<>>])

NextMarquee ==
  \/ StagePointerDownAt(MarqueeDowns)
  \/ StagePointerMove
  \/ StagePointerUpAt(MarqueeUps)

SpecMarquee == InitMarquee /\ [][NextMarquee]_vars

\* Viewport: the content root offset by the coordinate origin, panned and
\* zoomed by the viewport. Zoom is num/den; the pointer is reported at the
\* screen image of a world point.
Views ==
  {[panX |-> 30, panY |-> -10, num |-> 2, den |-> 1, originX |-> 100, originY |-> 50],
   [panX |-> -40, panY |-> 20, num |-> 1, den |-> 2, originX |-> 0, originY |-> 0]}

\* Container.toGlobal of the content root: the screen position of a world point
toScreen(v, p) ==
  [globalX |-> v.panX + (v.num * (v.originX + p[1])) \div v.den,
   globalY |-> v.panY + (v.num * (v.originY + p[2])) \div v.den]

\* the world points the pointer visits
ViewPts == {<<20, 10>>, <<120, 60>>, <<60, -20>>}

\* the world points that fall on a whole screen pixel
OnPixel(v) ==
  {p \in ViewPts : /\ (v.num * (v.originX + p[1])) % v.den = 0
                    /\ (v.num * (v.originY + p[2])) % v.den = 0}

\* pointer events at the screen images of the world points
ScreenEvents ==
  {[globalX |-> toScreen(view, p).globalX, globalY |-> toScreen(view, p).globalY,
    shiftKey |-> k] : p \in OnPixel(view), k \in {FALSE}}

InitViewport ==
  \E sel \in {<<1>>, <<1, 2>>}, v \in Views :
    InitFrom([SceneWith(sel, FALSE) EXCEPT !.view = v])

NextViewport ==
  \/ ElementPointerDownAt(ScreenEvents)
  \/ ElementPointerMoveAt(ScreenEvents)
  \/ ElementPointerUp
  \/ HandlePointerDownAt(ScreenEvents)
  \/ gestures = 0 /\ StagePointerDownAt(ScreenEvents)
  \/ StagePointerMoveAt(ScreenEvents)
  \/ StagePointerUpAt(ScreenEvents)

SpecViewport == InitViewport /\ [][NextViewport]_vars

\* History at capacity: a nudge along both axes records two actions for
\* each selected element.
InitCapacity == InitWith({<<1>>, <<1, 2>>}, TRUE)

NextCapacity ==
  \/ NudgeSelectedBy({<<1, -1>>, <<1, 0>>})
  \/ AssignOf({"x", "rotation"})
  \/ Undo
  \/ Redo

SpecCapacity == InitCapacity /\ [][NextCapacity]_vars

\* Resize gestures started with a handle tag that names no handle, over
\* rectangles the application has made 100 or 3 wide.
OtherTags == {"center", "left"}

InitOtherTags ==
  \E sel \in {<<1>>, <<1, 2>>}, w \in {100, 3} :
    InitFrom([SetWidth(SceneWith(sel, FALSE), 1, w) EXCEPT !.events = <<>>])

NextOtherTags ==
  \/ StartResizeAt(OtherTags, ClickEvents)
  \/ StagePointerMove
  \/ StagePointerUpAt(ReleaseEvents)

SpecOtherTags == InitOtherTags /\ [][NextOtherTags]_vars

\* Replays over a scene with an image: a rectangle and an ImageElement
\* added, UndoRedoPlugin registered, the image still loading.
InitReplay ==
  InitFrom([SceneWith(<<>>, TRUE) EXCEPT !.elems[2] = [ImageProto EXCEPT !.attached = TRUE]])

NextReplay ==
  \/ ImageLoaded
  \/ AssignOf({"x", "rotation"})
  \/ Undo
  \/ Redo

SpecReplay == InitReplay /\ [][NextReplay]_vars

\* Mutations of detached objects: handle gestures and assignments with
\* removals in between, UndoRedoPlugin registered.
NextDetached ==
  \/ HandlePointerDownAt({NoEvent})
  \/ StagePointerMoveAt(ReleaseEvents)
  \/ StagePointerUpAt({NoEvent})
  \/ Remove
  \/ AssignOf({"x"})

SpecDetached == InitWith({<<1, 2>>}, TRUE) /\ [][NextDetached]_vars

\* Extents of every shape kind: the first element is a rectangle, a circle,
\* an arc or a line given in any endpoint order; UndoRedoPlugin registered.
ShapeProtos ==
  {RectProto, CircleProto, ArcProto} \cup
  {LineProto(p[1], p[2], p[3], p[4]) :
     p \in {<<0, 0, 30, 40>>, <<30, 0, 0, 40>>, <<0, 40, 30, 0>>, <<30, 40, 0, 0>>}}

InitExtent ==
  \E proto \in ShapeProtos :
    LET start == [SceneWith(<<>>, TRUE) EXCEPT !.scene = <<>>,
                                               !.elems = [i \in Ids |-> Proto(i)]]
        first == [start EXCEPT !.elems[1] = proto]
    IN InitFrom([ForEach(LAMBDA u, id : ElementManagerAdd(u, id),
                         [i \in 1..MaxElems |-> i], first)
                   EXCEPT !.events = <<>>])

NextExtent ==
  \/ AssignOf({"width", "height"})
  \/ Undo
  \/ Redo

SpecExtent == InitExtent /\ [][NextExtent]_vars

(* ======================================================================= *)
(* Properties                                                              *)
(* ======================================================================= *)

\* the event types emitted by the last call
EventTypes == {events[k].type : k \in 1..Len(events)}

\* the program state without the event log
programVars ==
  <<elems, scene, selected, clipboard, view, boxVisible, rotateShown, isMarqueeActive,
    marqueeStart, isDraggingElement, dragState, activeElements, suppress, plugin, undoStack, redoStack>>

\* the last call was a pointer move that the TransformController handled
MoveApplied ==
  /\ isDragging(St)
  /\ \/ lastOp.op = "elementPointerMove" /\ isDraggingElement
     \/ lastOp.op = "stagePointerMove" /\ ~isDraggingElement

\* pointer delta of the last move relative to the gesture start
LastDx == toWorld(St, lastOp.ev).x - dragState.startX
LastDy == toWorld(St, lastOp.ev).y - dragState.startY

(* ---- C1 ---- *)

\* C1: addToSelection(o) on a selected o, and deselect(o) on an unselected o,
\* leave the selection unchanged and emit no selection:changed or
\* selection:cleared event.
C1_IdempotentSilent ==
  [][(\/ lastOp'.op = "addToSelection" /\ lastOp'.el \in Range(selected)
      \/ lastOp'.op = "deselect" /\ lastOp'.el \notin Range(selected))
     => /\ selected' = selected
        /\ \A k \in 1..Len(events') :
             events'[k].type \notin {"selection:changed", "selection:cleared"}]_vars

(* ---- C2 ---- *)

\* C2: cancel() during a gesture of any mode leaves every object of the
\* gesture with the x, y, width, height and rotation of its snapshot, sets the
\* gesture state to none and emits no end event.
C2_CancelRestoresSnapshot ==
  [][(lastOp'.op = "cancel" /\ isDragging(St))
     => /\ \A id \in Range(activeElements) :
             LET start == dragState.elementStartProps[id]
             IN /\ elems'[id].x = start.x
                /\ elems'[id].y = start.y
                /\ Width(elems'[id]) = start.width
                /\ Height(elems'[id]) = start.height
                /\ elems'[id].rotation = start.rotation
        /\ dragState' = NoDrag
        /\ \A k \in 1..Len(events') :
             events'[k].type \notin {"interaction:dragEnd", "interaction:resizeEnd",
                                     "interaction:rotateEnd"}]_vars

(* ---- C3 ---- *)

C5_SelectionInScene == Range(selected) \subseteq Range(scene)

(* ---- C6 ---- *)

\* strict separation of a from b on some side
Separated(a, b) ==
  \/ a.x + a.width < b.x
  \/ b.x + b.width < a.x
  \/ a.y + a.height < b.y
  \/ b.y + b.height < a.y

\* the rectangles share interior area
ShareInterior(a, b) ==
  /\ a.x < b.x + b.width
  /\ b.x < a.x + a.width
  /\ a.y < b.y + b.height
  /\ b.y < a.y + a.height

\* C6 as claimed: the test is false for separated rectangles, false for
\* rectangles with R1.right = R2.left, true for rectangles sharing interior.
C6_StrictOverlap ==
  probe.f = "boundsOverlap"
    => /\ Separated(probe.a, probe.b) => ~probe.result
       /\ probe.a.x + probe.a.width = probe.b.x => ~probe.result
       /\ ShareInterior(probe.a, probe.b) => probe.result

\* C6 amended: the test is false for separated rectangles, true for
\* rectangles sharing interior, and true for rectangles that touch at an edge
\* (R1.right = R2.left with vertical extents not separated).
C6_InclusiveOverlap ==
  probe.f = "boundsOverlap"
    => /\ Separated(probe.a, probe.b) => ~probe.result
       /\ ShareInterior(probe.a, probe.b) => probe.result
       /\ (/\ probe.a.x + probe.a.width = probe.b.x
           /\ probe.a.y <= probe.b.y + probe.b.height
           /\ probe.b.y <= probe.a.y + probe.a.height) => probe.result

\* two rectangles of positive size touching at a vertical edge were tested
C6_Witness ==
  /\ probe.f = "boundsOverlap"
  /\ probe.a.width > 0 /\ probe.a.height > 0 /\ probe.b.width > 0 /\ probe.b.height > 0
  /\ probe.a.x + probe.a.width = probe.b.x
  /\ probe.a.y < probe.b.y + probe.b.height
  /\ probe.b.y < probe.a.y + probe.a.height
  /\ probe.result

(* ---- C7 ---- *)

\* C7: pointer-down on an interactable object o toggles o in the selection
\* with shift; without shift it makes the selection {o} unless o was selected,
\* in which case the selection is unchanged; then a move gesture over exactly
\* the resulting selection is started.  Pointer-down on a non-interactable
\* object changes nothing.
C7_PointerDownSelects ==
  [][lastOp'.op = "elementPointerDown"
     => LET o == lastOp'.el
            shift == lastOp'.ev.shiftKey
            was == o \in Range(selected)
        IN IF ~elems[o].interactable
           THEN UNCHANGED programVars /\ events' = <<>>
           ELSE /\ shift /\ was => Range(selected') = Range(selected) \ {o}
                /\ shift /\ ~was => Range(selected') = Range(selected) \cup {o}
                /\ ~shift /\ was => selected' = selected
                /\ ~shift /\ ~was => selected' = <<o>>
                /\ dragState'.mode = "move"
                /\ isDraggingElement'
                /\ Range(activeElements') = Range(selected')
                /\ DOMAIN dragState'.elementStartProps = Range(selected')
                /\ UNCHANGED <<elems, scene>>]_vars

\* a shift-click removed one of two selected objects and the move gesture
\* runs over the remaining one
C7_Witness ==
  /\ lastOp.op = "elementPointerDown"
  /\ lastOp.ev.shiftKey
  /\ elems[lastOp.el].interactable
  /\ lastOp.el \notin Range(selected)
  /\ "selection:changed" \in EventTypes
  /\ Len(selected) = 1
  /\ dragState.mode = "move"
  /\ activeElements = selected

(* ---- C8 ---- *)

Assigned(id, p, v) ==
  \A k \in 1..Len(events) :
    (/\ events[k].type = "action:performed"
     /\ events[k].action.element = id
     /\ events[k].action.property = p) => events[k].action.newValue = v

C10_OppositeEdgeFixed ==
  (MoveApplied /\ dragState.mode = "resize")
    => \A id \in Range(activeElements) :
         LET start == dragState.elementStartProps[id]
             h == dragState.handlePosition
         IN /\ IncludesLeft(h) => elems[id].x + Width(elems[id]) = start.x + start.width
            /\ IncludesTop(h) => elems[id].y + Height(elems[id]) = start.y + start.height
            /\ IncludesRight(h) => elems[id].x = start.x
            /\ IncludesBottom(h) => elems[id].y = start.y

(* ---- C11 ---- *)

\* the corner handles
IsCorner(h) == (IncludesLeft(h) \/ IncludesRight(h)) /\ (IncludesTop(h) \/ IncludesBottom(h))

\* C11: after every pointer move of a resize gesture, whatever the handle,
\* the delta and the modifier, the width and the height handed to each
\* element of the gesture, and the extents it ends with, are at least 5.
C11_MinimumExtent ==
  (MoveApplied /\ dragState.mode = "resize")
    => /\ \A id \in Range(activeElements) :
            Width(elems[id]) >= 5 /\ Height(elems[id]) >= 5
       /\ \A k \in 1..Len(events) :
            (/\ events[k].type = "action:performed"
             /\ events[k].action.property \in {"width", "height"})
              => events[k].action.newValue >= 5

\* a left handle was dragged past the right edge of the rectangle: the
\* unclamped width would be negative and the rectangle is 5 wide
C11_Witness ==
  /\ MoveApplied
  /\ dragState.mode = "resize"
  /\ IncludesLeft(dragState.handlePosition)
  /\ 1 \in Range(activeElements)
  /\ dragState.elementStartProps[1].width - LastDx < 0
  /\ Width(elems[1]) = 5
  /\ \E k \in 1..Len(events) :
       /\ events[k].type = "action:performed"
       /\ events[k].action.element = 1
       /\ events[k].action.property = "width"
       /\ events[k].action.newValue = 5

(* ---- C12 ---- *)

\* C12: in a resize with the constrain modifier and a corner handle, every
\* element whose snapshot width and height are positive has, after every
\* pointer move, width * snapshot.height = height * snapshot.width.
C12_AspectPreserved ==
  (/\ MoveApplied
   /\ dragState.mode = "resize"
   /\ lastOp.ev.shiftKey
   /\ IsCorner(dragState.handlePosition))
    => \A id \in Range(activeElements) :
         LET start == dragState.elementStartProps[id]
         IN (start.width > 0 /\ start.height > 0)
              => Width(elems[id]) * start.height = Height(elems[id]) * start.width

(* ---- C13 ---- *)

StartEvents == {"interaction:dragStart", "interaction:resizeStart", "interaction:rotateStart"}

EndEvents == {"interaction:dragEnd", "interaction:resizeEnd", "interaction:rotateEnd"}

\* the end event of a gesture mode
EndEventOf(mode) ==
  CASE mode = "move" -> "interaction:dragEnd"
    [] mode = "resize" -> "interaction:resizeEnd"
    [] mode = "rotate" -> "interaction:rotateEnd"

\* the step is a pointer-up that the handlers pass on to
\* TransformController.onPointerUp
PointerUpForwarded ==
  \/ lastOp'.op = "elementPointerUp" /\ isDraggingElement
  \/ lastOp'.op = "stagePointerUp" /\ isDragging(St) /\ ~isDraggingElement

\* C13: onPointerUp during a gesture with at least one object emits exactly
\* one end event, the one of the gesture's mode, and leaves the gesture state
\* none with no active objects; onPointerUp without a gesture emits nothing.
C13_OneEndEvent ==
  [][PointerUpForwarded
     => /\ (isDragging(St) /\ Len(activeElements) > 0)
             => /\ Cardinality({k \in 1..Len(events') : events'[k].type \in EndEvents}) = 1
                /\ \A k \in 1..Len(events') :
                     events'[k].type \in EndEvents
                       => events'[k].type = EndEventOf(dragState.mode)
        /\ isDragging(St) => dragState' = NoDrag /\ activeElements' = <<>>
        /\ ~isDragging(St) => events' = <<>> /\ dragState' = NoDrag]_vars

\* a resize gesture over one element was ended by a pointer-up on the stage
C13_Witness ==
  /\ lastOp.op = "stagePointerUp"
  /\ EventTypes = {"interaction:resizeEnd"}
  /\ Len(events) = 1
  /\ dragState = NoDrag
  /\ activeElements = <<>>
  /\ Len(selected) = 1

(* ---- C14 ---- *)

InteractionEvents ==
  StartEvents \cup EndEvents \cup {"interaction:dragMove"}

\* C14: a gesture over zero objects is inert: its start, every pointer move
\* during it and the pointer-up that ends it change no element and emit no
\* interaction event.
C14_EmptyGestureInert ==
  [][(\/ /\ lastOp'.op \in {"elementPointerDown", "handlePointerDown"}
         /\ isDragging([dragState |-> dragState'])
         /\ activeElements' = <<>>
      \/ /\ lastOp'.op \in {"elementPointerMove", "stagePointerMove",
                            "elementPointerUp", "stagePointerUp"}
         /\ isDragging(St)
         /\ activeElements = <<>>)
     => /\ elems' = elems
        /\ \A k \in 1..Len(events') : events'[k].type \notin InteractionEvents]_vars

(* ---- C15 ---- *)

\* C15: moveForward(e) followed by moveBackward(e), and moveBackward(e)
\* followed by moveForward(e), leave the sequence of scene elements sorted
\* by z key as it was.
C15_ForwardBackwardRestores ==
  [][lastOp'.op \in {"moveForward;moveBackward", "moveBackward;moveForward"}
     => SortByZ(scene', elems') = SortByZ(scene, elems)]_vars

(* ---- C16 ---- *)

\* the z keys of the scene elements, as the number of elements holding key v
KeyCount(sc, es, v) == Cardinality({id \in Range(sc) : es[id].zIndex = v})

C17_FrontAndBack ==
  [][(lastOp'.op \in {"bringToFront", "sendToBack"} /\ scene # <<>>)
     => LET e == lastOp'.el
            z == elems'[e].zIndex
        IN /\ lastOp'.op = "bringToFront"
                => /\ \E id \in Range(scene) : elems[id].zIndex = z - 1
                   /\ \A id \in Range(scene) : elems[id].zIndex <= z - 1
                   /\ \A id \in Range(scene') \ {e} : elems'[id].zIndex < z
           /\ lastOp'.op = "sendToBack"
                => /\ \E id \in Range(scene) : elems[id].zIndex = z + 1
                   /\ \A id \in Range(scene) : elems[id].zIndex >= z + 1
                   /\ \A id \in Range(scene') \ {e} : elems'[id].zIndex > z
           /\ \A id \in DOMAIN elems \ {e} : elems'[id] = elems[id]
           /\ scene' = scene]_vars

\* an element that was neither first nor alone was sent to the back of a
\* scene whose keys were not all equal
C17_Witness ==
  /\ lastOp.op = "sendToBack"
  /\ lastOp.el \in Range(scene)
  /\ elems[lastOp.el].zIndex = -1
  /\ \E id \in Range(scene) : elems[id].zIndex = 0
  /\ \E id \in Range(scene) : elems[id].zIndex = 1

(* ---- C18 ---- *)

SelectionEvents == {"selection:changed", "selection:cleared"}

\* the closed intervals [a, a + m] and [b, b + n] have a point in common
Meet(a, m, b, n) == a <= b + n /\ b <= a + m

\* C18: the pointer-up that ends a marquee leaves the selection alone and
\* emits no selection event when the marquee is at most 3 wide and at most 3
\* high; otherwise it adds exactly the interactable scene elements whose world
\* rectangle meets the marquee.  A marquee from (0,0) to (50,50) adds the
\* interactable elements meeting [0,50]x[0,50] and none lying at x >= 51.
C18_MarqueeSelects ==
  [][(lastOp'.op = "stagePointerUp" /\ isMarqueeActive)
     => LET ex == toWorld(St, lastOp'.ev).x
            ey == toWorld(St, lastOp'.ev).y
            mx == IF marqueeStart.x < ex THEN marqueeStart.x ELSE ex
            my == IF marqueeStart.y < ey THEN marqueeStart.y ELSE ey
            mw == IF marqueeStart.x < ex THEN ex - marqueeStart.x ELSE marqueeStart.x - ex
            mh == IF marqueeStart.y < ey THEN ey - marqueeStart.y ELSE marqueeStart.y - ey
            hit == {id \in Range(scene) :
                      /\ elems[id].interactable
                      /\ Meet(elems[id].x, Width(elems[id]), mx, mw)
                      /\ Meet(elems[id].y, Height(elems[id]), my, mh)}
        IN /\ (mw <= 3 /\ mh <= 3)
                => /\ selected' = selected
                   /\ \A k \in 1..Len(events') : events'[k].type \notin SelectionEvents
           /\ ~(mw <= 3 /\ mh <= 3)
                => Range(selected') = Range(selected) \cup hit
           /\ (marqueeStart = [x |-> 0, y |-> 0] /\ ex = 50 /\ ey = 50)
                => \A id \in Range(scene) :
                     /\ (/\ elems[id].interactable
                         /\ elems[id].x <= 50 /\ elems[id].x + Width(elems[id]) >= 0
                         /\ elems[id].y <= 50 /\ elems[id].y + Height(elems[id]) >= 0)
                          => id \in Range(selected')
                     /\ (elems[id].x >= 51 /\ id \notin Range(selected))
                          => id \notin Range(selected')
           /\ \A id \in Range(selected') \ Range(selected) : elems[id].interactable
           /\ ~isMarqueeActive']_vars

\* the marquee from (0,0) to (50,50) took the rectangle at x = 10 and left
\* out the interactable circle at x = 51
C18_Witness ==
  /\ lastOp.op = "stagePointerUp"
  /\ lastOp.ev.globalX = 50 /\ lastOp.ev.globalY = 50
  /\ marqueeStart = [x |-> 0, y |-> 0]
  /\ ~isMarqueeActive
  /\ elems[1].x = 10 /\ elems[1].interactable
  /\ elems[2].x = 51 /\ elems[2].interactable
  /\ selected = <<1>>
  /\ "selection:changed" \in EventTypes

(* ---- C19 ---- *)

\* C19: selectAll() adds every interactable scene element to the selection
\* and no other; on a scene of 3 interactable elements and 1 non-interactable
\* element with nothing selected, the selection becomes the 3 interactable ones.
C19_SelectAllInteractable ==
  [][lastOp'.op = "selectAll"
     => LET able == {id \in Range(scene) : elems[id].interactable}
        IN /\ Range(selected') = Range(selected) \cup able
           /\ (/\ Len(scene) = 4
               /\ Cardinality(able) = 3
               /\ selected = <<>>)
                => /\ Len(selected') = 3
                   /\ \A id \in Range(selected') : elems[id].interactable]_vars

\* selectAll on four scene elements, one of them not interactable
C19_Witness ==
  /\ lastOp.op = "selectAll"
  /\ Len(scene) = 4
  /\ Cardinality({id \in Range(scene) : ~elems[id].interactable}) = 1
  /\ Len(selected) = 3
  /\ \A id \in Range(selected) : elems[id].interactable

(* ---- C20 ---- *)

\* C20: a pointer-down that reaches the background empties the selection
\* without shift and leaves it alone with shift; either way the marquee is
\* active with its origin at the world point of the click and no gesture of
\* the TransformController is started.
C20_BackgroundDown ==
  [][lastOp'.op = "stagePointerDown"
     => /\ lastOp'.ev.shiftKey => selected' = selected
        /\ ~lastOp'.ev.shiftKey => selected' = <<>>
        /\ isMarqueeActive'
        /\ marqueeStart' = toWorld(St, lastOp'.ev)
        /\ UNCHANGED <<dragState, activeElements, isDraggingElement, elems, scene>>]_vars

\* a shift-click on the background away from the origin kept the selection
\* and opened a marquee there
C20_Witness ==
  /\ lastOp.op = "stagePointerDown"
  /\ lastOp.ev.shiftKey
  /\ selected = <<1>>
  /\ isMarqueeActive
  /\ marqueeStart = [x |-> 20, y |-> 10]
  /\ dragState = NoDrag

(* ---- C21 ---- *)

\* number of events of type ty emitted by the last call
CountEvents(es, ty) == Cardinality({k \in 1..Len(es) : es[k].type = ty})

\* C21: clearSelection() on an empty selection changes nothing and emits no
\* event; on a non-empty selection it empties the selection and emits
\* selection:cleared exactly once and no selection:changed.
C21_ClearSelection ==
  [][lastOp'.op = "clearSelection"
     => IF selected = <<>>
        THEN UNCHANGED programVars /\ events' = <<>>
        ELSE /\ selected' = <<>>
             /\ CountEvents(events', "selection:cleared") = 1
             /\ CountEvents(events', "selection:changed") = 0]_vars

\* clearSelection has just emptied a selection and announced it once
C21_Witness ==
  /\ lastOp.op = "clearSelection"
  /\ selected = <<>>
  /\ events = <<[type |-> "selection:cleared"]>>
  /\ ~boxVisible

(* ---- C22 ---- *)

\* C22: copySelected() records each selected element's id and position;
\* pasteClipboard() with a non-empty clipboard of n entries that all
\* deserialize appends n new elements to the scene, each with an id that is
\* neither in the scene before the call nor the id of a copied element, each
\* at the recorded position plus (20,20), and leaves exactly the pasted
\* elements selected.
C22_PasteAddsCopies ==
  [][/\ lastOp'.op = "copySelected"
        => /\ Len(clipboard') = Len(selected)
           /\ \A k \in 1..Len(selected) :
                /\ clipboard'[k].id = selected[k]
                /\ clipboard'[k].x = elems[selected[k]].x
                /\ clipboard'[k].y = elems[selected[k]].y
     /\ (/\ lastOp'.op = "pasteClipboard"
         /\ Len(clipboard) > 0
         /\ \A k \in 1..Len(clipboard) : Deserializes(clipboard[k]))
        => LET n == Len(clipboard)
           IN /\ Len(scene') = Len(scene) + n
              /\ SubSeq(scene', 1, Len(scene)) = scene
              /\ Len(selected') = n
              /\ Range(selected') = Range(scene') \ Range(scene)
              /\ \A k \in 1..n :
                   LET id == selected'[k]
                   IN /\ id \notin Range(scene)
                      /\ \A j \in 1..n : id # clipboard[j].id
                      /\ elems'[id].x = clipboard[k].x + 20
                      /\ elems'[id].y = clipboard[k].y + 20]_vars

\* two elements were copied, one of them was nudged afterwards, and the paste
\* put the two copies at the copied positions plus (20,20) and selected them
C22_Witness ==
  /\ lastOp.op = "pasteClipboard"
  /\ Len(clipboard) = 2
  /\ \A k \in 1..2 : Deserializes(clipboard[k])
  /\ selected = <<4, 5>>
  /\ scene = <<1, 2, 3, 4, 5>>
  /\ \A k \in 1..2 : /\ elems[selected[k]].x = clipboard[k].x + 20
                     /\ elems[selected[k]].y = clipboard[k].y + 20
  /\ \E k \in 1..2 : elems[clipboard[k].id].x # clipboard[k].x

(* ---- C23 ---- *)

\* C23: when some clipboard entry does not deserialize, pasteClipboard() adds
\* nothing for it, and every other entry, before and after it, is pasted at
\* its recorded position plus (20,20) and selected, in clipboard order.
C23_FailedEntrySkipped ==
  [][(/\ lastOp'.op = "pasteClipboard"
      /\ \E k \in 1..Len(clipboard) : ~Deserializes(clipboard[k]))
     => LET ok == SelectSeq(clipboard, Deserializes)
        IN /\ Len(scene') = Len(scene) + Len(ok)
           /\ SubSeq(scene', 1, Len(scene)) = scene
           /\ Len(selected') = Len(ok)
           /\ Range(selected') = Range(scene') \ Range(scene)
           /\ \A j \in 1..Len(ok) :
                LET e == elems'[selected'[j]]
                IN /\ e.kind = ok[j].shapeType
                   /\ e.sp = ok[j].shapeParams
                   /\ e.x = ok[j].x + 20
                   /\ e.y = ok[j].y + 20]_vars

\* the second of three clipboard entries did not deserialize; the first and
\* the third were pasted and selected
C23_Witness ==
  /\ lastOp.op = "pasteClipboard"
  /\ Len(clipboard) = 3
  /\ Deserializes(clipboard[1]) /\ ~Deserializes(clipboard[2]) /\ Deserializes(clipboard[3])
  /\ selected = <<4, 5>>
  /\ scene = <<1, 2, 3, 4, 5>>
  /\ elems[4].kind = clipboard[1].shapeType /\ elems[4].x = clipboard[1].x + 20
  /\ elems[5].kind = clipboard[3].shapeType /\ elems[5].x = clipboard[3].x + 20

(* ---- C24 ---- *)

\* C24: after deleteSelected() no element that was selected before the call
\* is in the scene, the selection is empty, and the elements that were not
\* selected are still in the scene, in the same order and with the same
\* fields.
C24_DeleteSelected ==
  [][lastOp'.op = "deleteSelected"
     => /\ \A id \in Range(selected) : id \notin Range(scene')
        /\ selected' = <<>>
        /\ scene' = SelectSeq(scene, LAMBDA id : id \notin Range(selected))
        /\ \A id \in Range(scene) \ Range(selected) : elems'[id] = elems[id]]_vars

\* deleteSelected removed the selected element and left the other one in the
\* scene
C24_Witness ==
  /\ lastOp.op = "deleteSelected"
  /\ Len(scene) = 1
  /\ selected = <<>>
  /\ CountEvents(events, "element:removed") = 1
  /\ \A id \in Range(scene) : elems[id].attached
  /\ \E id \in Ids : id \notin Range(scene) /\ ~elems[id].attached

(* ---- C25 ---- *)

\* the rectangle a covers the rectangle b
Covers(a, b) ==
  /\ a.x <= b.x
  /\ a.y <= b.y
  /\ a.x + a.width >= b.x + b.width
  /\ a.y + a.height >= b.y + b.height

\* C25: the combined bounds of a non-empty list of elements run from the
\* least left and top to the greatest right and bottom of the elements'
\* local bounds offset by their positions; the bounds of the list with one
\* more element cover the bounds of the list, and the bounds of the list with
\* one element removed (if any is left) are covered by them.
C25_CombinedBounds ==
  probe.f = "computeCombinedBounds"
    => LET S == Range(probe.list)
           b == probe.bounds
       IN /\ b.x = MinOf({elems[id].x : id \in S})
          /\ b.y = MinOf({elems[id].y : id \in S})
          /\ b.x + b.width = MaxOf({elems[id].x + Width(elems[id]) : id \in S})
          /\ b.y + b.height = MaxOf({elems[id].y + Height(elems[id]) : id \in S})
          /\ Covers(probe.more, b)
          /\ S # {probe.o} => Covers(b, probe.less)

\* the bounds of both elements, strictly larger than the bounds of either
\* one alone
C25_Witness ==
  /\ probe.f = "computeCombinedBounds"
  /\ Len(probe.list) = 2
  /\ probe.o \in Range(probe.list)
  /\ probe.bounds # probe.less
  /\ Covers(probe.bounds, probe.less)
  /\ probe.bounds.x < elems[probe.list[2]].x
  /\ probe.bounds.width > Width(elems[1])

(* ---- C26 ---- *)

\* C26: in every reachable state the selection box with its handles is
\* visible exactly when the selection is non-empty, and the rotate handle is
\* shown on it only when exactly one element is selected; so a pointer-down
\* on a handle never starts a gesture over an empty selection, and a
\* pointer-down on the rotate handle starts it over exactly one element.
C26_HandlesFollowSelection ==
  /\ [](/\ boxVisible <=> selected # <<>>
        /\ (boxVisible /\ rotateShown) => Len(selected) = 1)
  /\ [][lastOp'.op = "handlePointerDown"
        => /\ selected # <<>>
           /\ activeElements' = selected
           /\ lastOp'.handle = "rotate" => Len(activeElements') = 1]_vars

\* a resize gesture over two selected elements: the box is visible, the
\* rotate handle is not
C26_Witness ==
  /\ lastOp.op = "handlePointerDown"
  /\ lastOp.handle # "rotate"
  /\ dragState.mode = "resize"
  /\ Len(selected) = 2
  /\ boxVisible
  /\ ~rotateShown

(* ---- C27 ---- *)

\* a move gesture is active over an element that is no longer in the scene
HeldRemoved ==
  /\ dragState.mode = "move"
  /\ \E id \in Range(activeElements) : id \notin Range(scene)

\* C27: when an element of an active move gesture has been removed from the
\* scene, a pointer move delivered through a scene element still places the
\* held element at its snapshot position plus the pointer delta, and the next
\* pointer-up, wherever it is delivered, ends the gesture: the gesture mode is
\* none and the element-drag flag is false.
C27_RemovedMidGesture ==
  [][HeldRemoved
     => /\ lastOp'.op = "elementPointerMove"
           => \A id \in Range(activeElements) :
                /\ elems'[id].x = dragState.elementStartProps[id].x
                                    + (toWorld(St, lastOp'.ev).x - dragState.startX)
                /\ elems'[id].y = dragState.elementStartProps[id].y
                                    + (toWorld(St, lastOp'.ev).y - dragState.startY)
        /\ lastOp'.op \in {"elementPointerUp", "stagePointerUp"}
           => /\ dragState'.mode = "none"
              /\ ~isDraggingElement']_vars

(* ---- C28 ---- *)

\* C28: whatever pointer events are delivered, the gesture mode changes only
\* from none to move, resize or rotate and back to none, the snapshot of an
\* active gesture is never replaced, and a marquee and a transform gesture
\* are never active at the same time.
C28_OneGestureAtATime ==
  /\ [](~(isMarqueeActive /\ dragState.mode # "none"))
  /\ [][dragState.mode # "none"
        => \/ dragState' = dragState
           \/ dragState'.mode = "none"]_vars

(* ---- C29 ---- *)

\* C29: a pointer move received while no gesture and no marquee is active
\* changes no element, does not change the selection and emits no event.
C29_IdleMoveInert ==
  [][(/\ lastOp'.op \in {"elementPointerMove", "stagePointerMove"}
      /\ dragState.mode = "none"
      /\ ~isMarqueeActive)
     => /\ UNCHANGED programVars
        /\ events' = <<>>]_vars

\* a pointer move over a selection with no gesture in progress
C29_Witness ==
  /\ lastOp.op \in {"elementPointerMove", "stagePointerMove"}
  /\ lastOp.ev.globalX # 0
  /\ dragState.mode = "none"
  /\ ~isMarqueeActive
  /\ selected # <<>>
  /\ events = <<>>

(* ---- C30 ---- *)

\* C30: assigning to x, y, rotation, zIndex or interactable the value the
\* property has changes nothing, emits no event and records no action;
\* assigning a different value updates the property and, on an attached
\* element with the suppression flag clear, emits element:changed exactly once
\* and action:performed exactly once.
C30_GuardedSetter ==
  [][(lastOp'.op = "assign" /\ lastOp'.action.property \in BaseProperties)
     => LET a == lastOp'.action
            id == a.element
        IN IF a.newValue = GetProperty(elems[id], a.property)
           THEN UNCHANGED programVars /\ events' = <<>>
           ELSE /\ GetProperty(elems'[id], a.property) = a.newValue
                /\ (elems[id].attached /\ ~suppress)
                     => /\ CountEvents(events', "element:changed") = 1
                        /\ CountEvents(events', "action:performed") = 1]_vars

\* an assignment of a new x to an attached element: one change event, one
\* action, recorded by the plugin
C30_Witness ==
  /\ lastOp.op = "assign"
  /\ lastOp.action.property = "x"
  /\ lastOp.action.newValue # lastOp.action.oldValue
  /\ elems[lastOp.el].attached
  /\ elems[lastOp.el].x = lastOp.action.newValue
  /\ CountEvents(events, "element:changed") = 1
  /\ CountEvents(events, "action:performed") = 1
  /\ undoStack # <<>>

(* ---- C31 ---- *)

\* the world point whose screen image the event reports
WorldOf(ev) ==
  CHOOSE p \in OnPixel(view) :
    /\ toScreen(view, p).globalX = ev.globalX
    /\ toScreen(view, p).globalY = ev.globalY

\* the last pointer handler run from state s with event ev
AsHandled(s, op, ev) ==
  CASE op.op = "elementPointerDown" -> handleElementPointerDown(s, op.el, ev)
    [] op.op = "elementPointerMove" -> handleElementPointerMove(s, ev)
    [] op.op = "handlePointerDown" -> handlePointerDown(s, op.handle, ev)
    [] op.op = "stagePointerDown" -> onStagePointerDown(s, ev)
    [] op.op = "stagePointerMove" -> onStagePointerMove(s, ev)
    [] op.op = "stagePointerUp" -> onStagePointerUp(s, ev)
    [] OTHER -> s

Performed(es) ==
  LET sel == SelectSeq(es, LAMBDA e : e.type = "action:performed")
  IN [i \in 1..Len(sel) |-> sel[i].action]

\* the last n entries of q
LastN(q, n) == IF Len(q) > n THEN SubSeq(q, Len(q) - n + 1, Len(q)) ELSE q

\* C32: the undo stack never holds more than maxHistory actions; a call that
\* performs actions empties the redo stack and leaves on the undo stack the
\* newest maxHistory of the old entries followed by the new ones; undo() on an
\* empty undo stack and redo() on an empty redo stack change nothing; canUndo
\* and canRedo tell exactly whether the respective stack is non-empty.
C32_BoundedHistory ==
  /\ [](/\ Len(undoStack) <= MaxHistory
        /\ canUndo(St) <=> undoStack # <<>>
        /\ canRedo(St) <=> redoStack # <<>>)
  /\ [][Performed(events') # <<>> =>
          /\ redoStack' = <<>>
          /\ undoStack' = LastN(undoStack \o Performed(events'), MaxHistory)]_vars
  /\ [][(lastOp'.op = "undo" /\ undoStack = <<>>) =>
          (UNCHANGED programVars /\ events' = <<>>)]_vars
  /\ [][(lastOp'.op = "redo" /\ redoStack = <<>>) =>
          (UNCHANGED programVars /\ events' = <<>>)]_vars

\* one call has performed more actions than the history holds, and the undo
\* stack is full
C32_Witness ==
  /\ lastOp.op = "nudgeSelected"
  /\ Len(Performed(events)) > MaxHistory
  /\ Len(undoStack) = MaxHistory

(* ---- C33 ---- *)

\* the state in which id is the only element the gesture holds
HeldAlone(id) ==
  [St EXCEPT !.activeElements = <<id>>,
             !.dragState.elementStartProps =
               [j \in {id} |-> dragState.elementStartProps[id]]]

\* C33: a resize step over several captured objects gives each of them the
\* x, y, width and height the same step gives it when it is the only
\* captured object.
C33_ResizedAsAlone ==
  [][(/\ lastOp'.op = "stagePointerMove"
      /\ ~isDraggingElement
      /\ dragState.mode = "resize") =>
       \A id \in Range(activeElements) :
         LET alone == handleResize(HeldAlone(id), lastOp'.ev).elems[id]
         IN /\ elems'[id].x = alone.x
            /\ elems'[id].y = alone.y
            /\ Width(elems'[id]) = Width(alone)
            /\ Height(elems'[id]) = Height(alone)]_vars

\* a resize step has changed the width of two captured objects
C33_Witness ==
  /\ lastOp.op = "stagePointerMove"
  /\ dragState.mode = "resize"
  /\ Len(activeElements) = 2
  /\ \A id \in Range(activeElements) :
       Width(elems[id]) # dragState.elementStartProps[id].width

(* ---- C34 ---- *)

\* C34: a resize step of a gesture whose handle tag is none of the eight
\* handle positions leaves x, y, width and height of every captured object
\* equal to its snapshot.
C34_OtherTagInert ==
  [][(/\ lastOp'.op = "stagePointerMove"
      /\ dragState.mode = "resize"
      /\ dragState.handlePosition \notin HandlePositions) =>
       \A id \in Range(activeElements) :
         LET start == dragState.elementStartProps[id]
         IN /\ elems'[id].x = start.x
            /\ elems'[id].y = start.y
            /\ Width(elems'[id]) = start.width
            /\ Height(elems'[id]) = start.height]_vars

(* ---- C35 ---- *)

\* the next call is a pointer move that the TransformController handles
GestureStep ==
  /\ isDragging(St)
  /\ \/ lastOp'.op = "elementPointerMove" /\ isDraggingElement
     \/ lastOp'.op = "stagePointerMove" /\ ~isDraggingElement

\* the step resizes id with an edge-midpoint handle, without the shift key,
\* and neither minimum clamp applies
PlainEdgeResize(id) ==
  LET new == ResizeProps_NoClamp(dragState.elementStartProps[id], dragState.handlePosition,
                                 toWorld(St, lastOp'.ev).x - dragState.startX,
                                 toWorld(St, lastOp'.ev).y - dragState.startY, FALSE)
  IN /\ dragState.mode = "resize"
     /\ ~IsCorner(dragState.handlePosition)
     /\ dragState.handlePosition \in HandlePositions
     /\ ~lastOp'.ev.shiftKey
     /\ new.width >= MinSize
     /\ new.height >= MinSize

\* C35: a move step changes no width, height or rotation; a rotate step no
\* x, y, width or height; a resize step no rotation, and with an edge-midpoint
\* handle, no shift key and no clamp it leaves y and height (left, right) or
\* x and width (top, bottom) at their snapshot; no gesture step changes an object
\* outside the captured set or the selection.
C35_GestureFrame ==
  [][GestureStep =>
       /\ selected' = selected
       /\ \A id \in DOMAIN elems \ Range(activeElements) : elems'[id] = elems[id]
       /\ \A id \in Range(activeElements) :
            /\ dragState.mode = "move" =>
                 /\ Width(elems'[id]) = Width(elems[id])
                 /\ Height(elems'[id]) = Height(elems[id])
                 /\ elems'[id].rotation = elems[id].rotation
            /\ dragState.mode = "rotate" =>
                 /\ elems'[id].x = elems[id].x
                 /\ elems'[id].y = elems[id].y
                 /\ Width(elems'[id]) = Width(elems[id])
                 /\ Height(elems'[id]) = Height(elems[id])
            /\ dragState.mode = "resize" => elems'[id].rotation = elems[id].rotation
            /\ (PlainEdgeResize(id) /\ dragState.handlePosition \in {"middle-left", "middle-right"}) =>
                 /\ elems'[id].y = dragState.elementStartProps[id].y
                 /\ Height(elems'[id]) = dragState.elementStartProps[id].height
            /\ (PlainEdgeResize(id) /\ dragState.handlePosition \in {"top-center", "bottom-center"}) =>
                 /\ elems'[id].x = dragState.elementStartProps[id].x
                 /\ Width(elems'[id]) = dragState.elementStartProps[id].width]_vars

(* ---- C36 ---- *)

\* C36: every call that changes the set of selected objects emits a
\* selection:changed or selection:cleared event.
C36_SelectionEventEmitted ==
  [][Range(selected') # Range(selected) =>
       \E k \in 1..Len(events') :
         events'[k].type \in {"selection:changed", "selection:cleared"}]_vars

(* ---- C37 ---- *)

\* C37: after undo() the suppression flag is false and the replayed action
\* has moved from the top of the undo stack to the top of the redo stack;
\* after redo() likewise, from the redo stack to the undo stack.
C37_ReplayExits ==
  [][/\ (lastOp'.op = "undo" /\ undoStack # <<>>) =>
          /\ ~suppress'
          /\ undoStack' = SubSeq(undoStack, 1, Len(undoStack) - 1)
          /\ redoStack' = Append(redoStack, lastOp'.action)
     /\ (lastOp'.op = "redo" /\ redoStack # <<>>) =>
          /\ ~suppress'
          /\ redoStack' = SubSeq(redoStack, 1, Len(redoStack) - 1)
          /\ undoStack' = Append(undoStack, lastOp'.action)]_vars

(* ---- C38 ---- *)

\* the element an element:changed or action:performed event is about
SubjectOf(e) == IF e.type = "action:performed" THEN e.action.element ELSE e.element

\* C38: no element:changed or action:performed event is about an object that
\* was detached when the call began, and such an object adds nothing to the
\* undo stack; a gesture step gives a detached captured object the x, y,
\* width, height and rotation it gives it when attached; an assignment to a
\* detached object takes effect.
C38_DetachedSilent ==
  [][/\ \A k \in 1..Len(events') :
          events'[k].type \in {"element:changed", "action:performed"}
            => elems[SubjectOf(events'[k])].attached
     /\ \A k \in 1..Len(undoStack') :
          ~elems[undoStack'[k].element].attached
            => \E j \in 1..Len(undoStack) : undoStack[j] = undoStack'[k]
     /\ (lastOp'.op = "stagePointerMove" /\ isDragging(St) /\ ~isDraggingElement) =>
          \A id \in Range(activeElements) :
            LET ref == onPointerMove([St EXCEPT !.elems[id].attached = TRUE],
                                     lastOp'.ev).elems[id]
            IN /\ elems'[id].x = ref.x
               /\ elems'[id].y = ref.y
               /\ Width(elems'[id]) = Width(ref)
               /\ Height(elems'[id]) = Height(ref)
               /\ elems'[id].rotation = ref.rotation
     /\ lastOp'.op = "assign" =>
          GetProperty(elems'[lastOp'.el], lastOp'.action.property) = lastOp'.action.newValue]_vars

\* a gesture step has moved a captured object that was removed during the
\* gesture, and no event of the step is about it
C38_Witness ==
  /\ lastOp.op = "stagePointerMove"
  /\ \E id \in Range(activeElements) :
       /\ ~elems[id].attached
       /\ elems[id].x # dragState.elementStartProps[id].x
       /\ \A k \in 1..Len(events) :
            events[k].type \in {"element:changed", "action:performed"}
              => SubjectOf(events[k]) # id

(* ---- C39 ---- *)

\* C39: moveForward(e) on an object that is not last in ascending z order
\* leaves e after its former immediate successor in that order, and
\* moveBackward(e) on an object that is not first leaves e before its former
\* immediate predecessor.
C39_MovesPastNeighbour ==
  [][lastOp'.op \in {"moveForward", "moveBackward"} =>
       LET e == lastOp'.el
           all == SortByZ(scene, elems)
           new == SortByZ(scene', elems')
           idx == IndexOf(all, e)
       IN /\ (lastOp'.op = "moveForward" /\ idx > 0 /\ idx < Len(all))
               => IndexOf(new, e) > IndexOf(new, all[idx + 1])
          /\ (lastOp'.op = "moveBackward" /\ idx > 1)
               => IndexOf(new, e) < IndexOf(new, all[idx - 1])]_vars

(* ---- C40 ---- *)

\* C40: after el.width = v on a shape of non-zero width the width is v, and
\* likewise for the height; widths and heights are never negative; undoing a
\* width or height change restores the extent the action recorded as old.
C40_ExtentRoundTrip ==
  [][/\ \A id \in Ids : Width(elems'[id]) >= 0 /\ Height(elems'[id]) >= 0
     /\ (/\ lastOp'.op = "assign"
         /\ lastOp'.action.property \in {"width", "height"}
         /\ GetProperty(elems[lastOp'.el], lastOp'.action.property) # 0) =>
          GetProperty(elems'[lastOp'.el], lastOp'.action.property)
            = lastOp'.action.newValue
     /\ (/\ lastOp'.op = "undo"
         /\ lastOp'.action.property \in {"width", "height"}) =>
          GetProperty(elems'[lastOp'.action.element], lastOp'.action.property)
            = lastOp'.action.oldValue]_vars

====
